---- MODULE Spec2Model ----
(***************************************************************************)
(* Fork-aware transaction pool: the multi-view listener.                   *)
(*                                                                         *)
(* MultiViewListener keeps one Controller (the sender of an unbounded      *)
(* command channel) per transaction hash.  The receiving side is the       *)
(* ExternalWatcherContext that futures::stream::unfold drives: a biased    *)
(* select between the StreamMap of the per-view status streams and the     *)
(* command channel.                                                        *)
(*                                                                         *)
(* One watcher instance is identified by the create_external_watcher call  *)
(* that built it.  View streams are objects of the environment (the        *)
(* validated pool of a view writes them); Broadcast's peer list is not     *)
(* modelled, every other payload is.                                       *)
(***************************************************************************)
EXTENDS Integers, Sequences, FiniteSets, TLC

\* ---------------------------------------------------------------- bounds
\* create_external_watcher_for_tx calls in a run (each builds at most one watcher)
MaxCallers == 2
\* view streams handed to add_view_watcher_for_tx in a run
MaxStreams == 2
\* statuses the views write to their streams in a run
MaxEvents == 1
\* commands the controllers accept in a run
MaxCommands == 2
\* the same two for the runs of one watcher
MaxWatcherEvents == 2
MaxWatcherCommands == 3
\* statuses a view stream holds unread
MaxBuf == 1
\* statuses in the streams built with stream::iter(events) before they are added
MaxFeed == 3

\* purge_transactions calls that may be in flight together
MaxPurges == 2
\* the batch limit of one revalidation; it stands for
\* TXMEMPOOL_MAX_REVALIDATION_BATCH_SIZE (1000 in the source), scaled to the pool's size
MaxBatch == 2

\* start_background_revalidation calls made on one view
MaxRevalidations == 2
\* calls made on one view: start_background_revalidation, finish_revalidation, submit
MaxViewCalls == 4

Callers == 1..MaxCallers
Purges == 1..MaxPurges
Revalidations == 1..MaxRevalidations
StreamIds == 1..MaxStreams

\* ------------------------------------------------------------ data model
TxHashes == {"ta", "tb"}
\* the transaction the calls are made for where one transaction is followed
Submitted == {"ta"}
BlockHashes == {"b1", "b2"}
TxIndexes == {0, 1}
NoBlock == "none"
\* "no watcher" and "no stream": one past the last identifier
NoCaller == MaxCallers + 1
NoStream == MaxStreams + 1

\* TransactionStatus<TxHash, BlockHash>
St(kind, block, index) == [kind |-> kind, block |-> block, index |-> index]
Plain(kind) == St(kind, NoBlock, 0)
Future == Plain("Future")
Ready == Plain("Ready")
Broadcast == Plain("Broadcast")
Usurped == Plain("Usurped")
Dropped == Plain("Dropped")
Invalid == Plain("Invalid")
InBlock(b, i) == St("InBlock", b, i)
Finalized(b, i) == St("Finalized", b, i)
Retracted(b) == St("Retracted", b, 0)
FinalityTimeout(b) == St("FinalityTimeout", b, 0)

TransactionStatus ==
    {Future, Ready, Broadcast, Usurped, Dropped, Invalid}
    \cup {InBlock(b, i) : b \in BlockHashes, i \in TxIndexes}
    \cup {Finalized(b, i) : b \in BlockHashes, i \in TxIndexes}
    \cup {Retracted(b) : b \in BlockHashes}
    \cup {FinalityTimeout(b) : b \in BlockHashes}

\* the statuses the views are made to write: every variant, and for InBlock two
\* blocks and two indexes of one block
ViewStatuses ==
    {Future, Ready, Broadcast, Usurped, Dropped, Invalid,
     InBlock("b1", 0), InBlock("b1", 1), InBlock("b2", 0),
     Finalized("b1", 0), Retracted("b1"), FinalityTimeout("b1")}

\* ControllerCommand<ChainApi>
Cmd(cmd, block, sid, index) == [cmd |-> cmd, block |-> block, sid |-> sid, index |-> index]
AddView(h, s) == Cmd("AddView", h, s, 0)
RemoveView(h) == Cmd("RemoveView", h, NoStream, 0)
InvalidateTransaction == Cmd("InvalidateTransaction", NoBlock, NoStream, 0)
FinalizeTransaction(b, i) == Cmd("FinalizeTransaction", b, NoStream, i)
NoCmd == Cmd("none", NoBlock, NoStream, 0)

VARIABLES
    controllers,  \* MultiViewListener.controllers: TxHash -> the watcher whose sender it holds
    pc,           \* each create_external_watcher_for_tx call: idle, checked, done
    arg,          \* the tx_hash a create call was made with
    result,       \* what a create call returned: "pending", "None", "Some"
    wstate,       \* each watcher: none, running, ended, dropped, panicked
    ctx,          \* each watcher's ExternalWatcherContext
    cmdq,         \* each watcher's command channel: sent and not yet yielded by rx
    out,          \* each watcher's external stream, as yielded so far
    last,         \* the input each watcher's loop handled last, with the context before it
    accepted,     \* each watcher: the kinds of command its channel has accepted
    streams,      \* the view streams: state and the statuses written and not yet read
    fed,          \* the statuses a stream held when it was handed to add_view_watcher_for_tx
    budget,       \* what the environment may still do: statuses to write, commands to send
    transactions, \* TxMemPool.transactions: hash -> the TxInMemPool object stored under it
    revalidation, \* each purge_transactions call: where it stands, its batch, the verdicts
    finalized,    \* the number of the latest finalized block purge_transactions was called with
    removal,      \* the TxMemPool call that last took an entry out of the map
    remove_watched_call, \* the last call, when it was remove_watched: its body, and
                  \* whether the map held that body in an unwatched entry
    vpool,        \* View.pool: the transactions of the view's validated pool
    revalidation_worker_channels, \* View.revalidation_worker_channels, behind its mutex
    maintain,     \* the maintain thread: where it stands in finish_revalidation
    worker,       \* each background revalidation: where revalidate_later stands
    chan,         \* the two channels start_background_revalidation made for each
    applied,      \* each revalidation: how often its result was applied to View.pool
    returned,     \* the revalidations finish_revalidation returned for
    calls         \* the calls made on the view so far

mvlvars == <<controllers, pc, arg, result, wstate, ctx, cmdq, out, last, accepted, streams,
             fed, budget>>
poolvars == <<transactions, revalidation, finalized, removal, remove_watched_call>>
viewvars == <<vpool, revalidation_worker_channels, maintain, worker, chan, applied, returned,
              calls>>
vars == <<mvlvars, poolvars, viewvars>>

\* ExternalWatcherContext::new
NewContext ==
    [ terminate |-> FALSE,
      future_seen |-> FALSE,
      ready_seen |-> FALSE,
      broadcast_seen |-> FALSE,
      inblock |-> {},
      views_keeping_tx_valid |-> {},
      views |-> [h \in {} |-> NoStream] ]

NoInput == [src |-> "none", kind |-> "none", key |-> NoBlock, kept |-> FALSE]

NewStream == [state |-> "unused", buf |-> <<>>]

\* ------------------------------------------------------------------ TxMemPool
\* The minimum interval between single transaction revalidations. Given in blocks.
TXMEMPOOL_REVALIDATION_PERIOD == 10

\* extrinsic bodies, and the hash the chain api gives each: api.hash_and_length(&xt).0
Xts == {"xa", "xb", "xc"}
hash_and_length(xt) ==
    CASE xt = "xa" -> "ta"
      [] xt = "xb" -> "tb"
      [] xt = "xc" -> "tc"
PoolHashes == {hash_and_length(xt) : xt \in Xts}

\* the numbers of the finalized blocks purge_transactions is called with
FinalizedNumbers == {10, 11, 21, 22}

\* what api.validate_transaction resolves to: Ok(Ok(_)), Ok(Err(Invalid(Future))),
\* Ok(Err(Invalid(_))) with another reason, Ok(Err(Unknown(_))), Err(_)
Verdicts == {"Valid", "InvalidFuture", "InvalidStale", "Unknown", "TransportError"}

\* no entry under a hash of the map
NoEntry == [watched |-> FALSE, tx |-> "none", validated_at |-> 0]

\* TxInMemPool::new_unwatched (source is carried along unused)
new_unwatched(xt) == [watched |-> FALSE, tx |-> xt, validated_at |-> 0]

\* TxInMemPool::new_watched
new_watched(xt) == [watched |-> TRUE, tx |-> xt, validated_at |-> 0]

\* the last call was not remove_watched
NoRemoveWatched == [xt |-> "none", unwatched |-> FALSE]

\* a purge_transactions call that was not made yet
NoRevalidation == [pc |-> "idle", number |-> 0, batch |-> {}, results |-> {}, invalid |-> {}]

\* TxMemPool::new
PoolInit ==
    /\ transactions = [h \in PoolHashes |-> NoEntry]
    /\ revalidation = [p \in Purges |-> NoRevalidation]
    /\ finalized = 0
    /\ removal = "none"
    /\ remove_watched_call = NoRemoveWatched

\* ----------------------------------------------------------------------- View
\* View.at: the block the view was built for
at == [hash |-> "b1", number |-> 11]

\* the hashes of the transactions a view's pool may hold
ViewHashes == {"ta", "tb"}

\* no transaction under a hash of the view's validated pool
NotInPool == [ready |-> FALSE, valid_at |-> 0]

\* ValidatedTransaction::valid_at(number, ..): a ready transaction, validated at a block number
valid_at(number) == [ready |-> TRUE, valid_at |-> number]

\* View.revalidation_worker_channels = None
NoChannels == [revalidation |-> 0, finish_revalidation_request_tx |-> FALSE]

\* FinishRevalidationLocalChannels::new: the sender of the finish request and the receiver
\* of the result of one revalidation
FinishRevalidationLocalChannels(r) ==
    [revalidation |-> r, finish_revalidation_request_tx |-> TRUE]

\* FinishRevalidationLocalChannels::remove_sender
remove_sender(v) == [v EXCEPT !.finish_revalidation_request_tx = FALSE]

\* no RevalidationResult in the result channel
NoResult == [sent |-> FALSE, invalid_hashes |-> {}, revalidated |-> {}]

\* RevalidationResult { invalid_hashes, revalidated }
RevalidationResult(invalid, revalidated) ==
    [sent |-> TRUE, invalid_hashes |-> invalid, revalidated |-> revalidated]

\* the channels of a revalidation that was not started
NoChannel ==
    [ finish_revalidation_request |-> 0,
      finish_revalidation_request_tx |-> FALSE,
      revalidation_result |-> NoResult,
      revalidation_result_rx |-> FALSE ]

\* the two tokio::sync::mpsc::channel(1): messages buffered, and whether the maintain
\* side's endpoint of each is alive (the worker's endpoints live as long as the worker)
NewChannel ==
    [ finish_revalidation_request |-> 0,
      finish_revalidation_request_tx |-> TRUE,
      revalidation_result |-> NoResult,
      revalidation_result_rx |-> TRUE ]

\* a revalidation that was not started
NoWorker == [pc |-> "unused", batch |-> {}, ext_hash |-> "none", validation_results |-> {}]

\* the maintain thread outside finish_revalidation
Idle == [pc |-> "idle", revalidation |-> 0, finish_revalidation_request_tx |-> FALSE]

\* the workers of the revalidation queue
WorkerPoolSize == 2

\* the calls made on a view: how many, and the one made last
NoCalls == [made |-> 0, last |-> "none"]
Called(name) == [made |-> calls.made + 1, last |-> name]

\* View::new, but for the pool
NoRevalidations ==
    /\ revalidation_worker_channels = NoChannels
    /\ maintain = Idle
    /\ worker = [r \in Revalidations |-> NoWorker]
    /\ chan = [r \in Revalidations |-> NoChannel]
    /\ applied = [r \in Revalidations |-> 0]
    /\ returned = {}
    /\ calls = NoCalls

\* View::new
ViewNew ==
    /\ vpool = [h \in ViewHashes |-> NotInPool]
    /\ NoRevalidations

\* MultiViewListener::new, no create_external_watcher_for_tx call made yet
Init ==
    /\ controllers = [h \in TxHashes |-> NoCaller]
    /\ pc = [c \in Callers |-> "idle"]
    /\ arg = [c \in Callers |-> CHOOSE h \in Submitted : TRUE]
    /\ result = [c \in Callers |-> "pending"]
    /\ wstate = [c \in Callers |-> "none"]
    /\ ctx = [c \in Callers |-> NewContext]
    /\ cmdq = [c \in Callers |-> <<>>]
    /\ out = [c \in Callers |-> <<>>]
    /\ last = [c \in Callers |-> NoInput]
    /\ accepted = [c \in Callers |-> {}]
    /\ streams = [s \in StreamIds |-> NewStream]
    /\ fed = [s \in StreamIds |-> <<>>]
    /\ budget = [events |-> MaxEvents, commands |-> MaxCommands]
    /\ PoolInit
    /\ ViewNew

\* ------------------------------------------------------- channel and streams
\* the receiver of w's command channel is gone: unbounded_send fails, is_closed() holds
RxClosed(w) == wstate[w] \in {"ended", "dropped", "panicked"}

\* a view stream polled now yields Some(status) / yields None
StreamReady(s) == streams[s].buf # <<>>
StreamEnded(s) == streams[s].state = "closed" /\ streams[s].buf = <<>>

\* the stream objects a queue of commands owns
StreamsIn(q) == {q[i].sid : i \in {j \in 1..Len(q) : q[j].cmd = "AddView"}}

\* the receiving ends of the streams in S are dropped, with what they held
DropStreams(str, S) ==
    [s \in StreamIds |-> IF s \in S THEN [state |-> "dropped", buf |-> <<>>] ELSE str[s]]

\* everything a watcher context owns goes with it (its StreamMap and its rx)
OwnedStreams(w) == {ctx[w].views[k] : k \in DOMAIN ctx[w].views} \cup StreamsIn(cmdq[w])

\* the keys of the StreamMap whose stream has ended: poll_next removes them when it
\* visits them
EndedKeys(c) == {k \in DOMAIN c.views : StreamEnded(c.views[k])}

\* self.fused.get_ref().keys(), without the key of the stream::pending() that
\* ExternalWatcherContext::new inserts under BlockHash::default() (no view has it)
Keys(c) == DOMAIN c.views

WithoutKeys(c, R) == [c EXCEPT !.views = [k \in (DOMAIN c.views) \ R |-> c.views[k]]]

\* ------------------------------------------------- ExternalWatcherContext
\* The arms of ExternalWatcherContext::handle. Each gives the new context, whether
\* the status is sent out (the bool handle returns), and whether the call panics.
Handled(c, emit) == [ctx |-> c, emit |-> emit, panic |-> FALSE]

\* a Future arm that looks at future_seen only
handle_future_after_ready(c, hash) ==
    LET c1 == [c EXCEPT !.views_keeping_tx_valid = @ \cup {hash}] IN
    IF c.future_seen
    THEN Handled(c1, FALSE)
    ELSE Handled([c1 EXCEPT !.future_seen = TRUE], TRUE)

\* TransactionStatus::Future
handle_future(c, hash) ==
    LET c1 == [c EXCEPT !.views_keeping_tx_valid = @ \cup {hash}] IN
    IF c.ready_seen \/ c.future_seen
    THEN Handled(c1, FALSE)
    ELSE Handled([c1 EXCEPT !.future_seen = TRUE], TRUE)

\* a Ready arm that does not look at ready_seen
handle_ready_unguarded(c, hash) ==
    Handled([c EXCEPT !.views_keeping_tx_valid = @ \cup {hash}, !.ready_seen = TRUE], TRUE)

\* TransactionStatus::Ready
handle_ready(c, hash) ==
    LET c1 == [c EXCEPT !.views_keeping_tx_valid = @ \cup {hash}] IN
    IF c.ready_seen
    THEN Handled(c1, FALSE)
    ELSE Handled([c1 EXCEPT !.ready_seen = TRUE], TRUE)

\* TransactionStatus::Broadcast(_)
handle_broadcast(c) ==
    IF ~c.broadcast_seen
    THEN Handled([c EXCEPT !.broadcast_seen = TRUE], TRUE)
    ELSE Handled(c, FALSE)

\* TransactionStatus::InBlock((block, _)): HashSet::insert is true iff block was not in it
handle_inblock(c, block) ==
    Handled([c EXCEPT !.inblock = @ \cup {block}], block \notin c.inblock)

\* TransactionStatus::Retracted(_): panic!("retracted? shall not happen")
handle_retracted(c) == [ctx |-> c, emit |-> FALSE, panic |-> TRUE]

\* TransactionStatus::FinalityTimeout(_)
handle_finality_timeout(c) == Handled(c, TRUE)

\* a Finalized arm that does not set terminate
handle_finalized_no_terminate(c) == Handled(c, TRUE)

\* TransactionStatus::Finalized(_)
handle_finalized(c) == Handled([c EXCEPT !.terminate = TRUE], TRUE)

\* a Usurped | Dropped | Invalid arm that returns true
handle_forwarded(c) == Handled(c, TRUE)

\* TransactionStatus::Usurped(_) | Dropped | Invalid
handle_suppressed(c) == Handled(c, FALSE)

\* ExternalWatcherContext::handle
handle(c, status, hash) ==
    CASE status.kind = "Future" -> handle_future(c, hash)
      [] status.kind = "Ready" -> handle_ready(c, hash)
      [] status.kind = "Broadcast" -> handle_broadcast(c)
      [] status.kind = "InBlock" -> handle_inblock(c, status.block)
      [] status.kind = "Retracted" -> handle_retracted(c)
      [] status.kind = "FinalityTimeout" -> handle_finality_timeout(c)
      [] status.kind = "Finalized" -> handle_finalized(c)
      [] status.kind \in {"Usurped", "Dropped", "Invalid"} -> handle_suppressed(c)

\* an invalidation that does not look at views_keeping_tx_valid
handle_invalidate_unconditional(c) == [ctx |-> [c EXCEPT !.terminate = TRUE], emit |-> TRUE]

\* an invalidation that looks at views_keeping_tx_valid without intersecting it with
\* the keys of the StreamMap
handle_invalidate_any_view(c) ==
    IF c.views_keeping_tx_valid = {}
    THEN [ctx |-> [c EXCEPT !.terminate = TRUE], emit |-> TRUE]
    ELSE [ctx |-> c, emit |-> FALSE]

\* ExternalWatcherContext::handle_invalidate_transaction
handle_invalidate_transaction(c) ==
    IF c.views_keeping_tx_valid \cap Keys(c) = {}
    THEN [ctx |-> [c EXCEPT !.terminate = TRUE], emit |-> TRUE]
    ELSE [ctx |-> c, emit |-> FALSE]

\* a FinalizeTransaction arm that leaves terminate alone
finalize_no_terminate(c) == c

\* the FinalizeTransaction arm of the command match: ctx.terminate = true
finalize(c) == [c EXCEPT !.terminate = TRUE]

\* ExternalWatcherContext::add_stream: StreamMap::insert replaces a stream under the same key
add_stream(c, block_hash, stream) ==
    [c EXCEPT !.views = [k \in (DOMAIN c.views) \cup {block_hash} |->
                            IF k = block_hash THEN stream ELSE c.views[k]]]

\* ExternalWatcherContext::remove_view
remove_view(c, block_hash) == WithoutKeys(c, {block_hash})

\* ------------------------------------- the stream create_external_watcher returns
\* the views added, not removed and whose stream has not ended
LiveKeys(c) == {k \in DOMAIN c.views : ~StreamEnded(c.views[k])}

\* what the loop handled last: a view's status (its kind and the view) or a command (its
\* kind), and whether right before a live view was in views_keeping_tx_valid
Kept(c) == c.views_keeping_tx_valid \cap LiveKeys(c) # {}

ViewInput(w, k, status) ==
    [src |-> "view", kind |-> status.kind, key |-> k, kept |-> Kept(ctx[w])]

CmdInput(w, cmd) ==
    [src |-> "cmd", kind |-> cmd.cmd, key |-> cmd.block, kept |-> Kept(ctx[w])]

\* an event of the external stream, with the view stream it comes from (NoStream: a command)
Event(status, from) == [status |-> status, from |-> from]

\* a stream that yields what was written last
NewestStatus(buf) == buf[Len(buf)]

\* the status a view stream yields next, and what it holds after: a stream yields in the
\* order it was written
NextStatus(buf) == Head(buf)
AfterNext(buf) == Tail(buf)

\* the keys tokio's biased select! finds ready in its first branch,
\* select_next_some(&mut ctx.fused)
ReadyKeys(c) == {k \in DOMAIN c.views : StreamReady(c.views[k])}

\* a StreamMap that keeps its ended streams
KeepEndedStreams(c) == c

\* the StreamMap after a poll that found every stream pending: it visited them all
\* and removed the ended ones
AfterPendingPoll(c) == WithoutKeys(c, EndedKeys(c))

\* the context is dropped: its StreamMap goes with it
DroppedContext(c) == [c EXCEPT !.views = [h \in {} |-> NoStream]]

\* unfold's closure is entered with ctx.terminate set: the stream yields None and the
\* context is dropped
WatcherTerminate(w) ==
    /\ wstate[w] = "running"
    /\ ctx[w].terminate
    /\ wstate' = [wstate EXCEPT ![w] = "ended"]
    /\ ctx' = [ctx EXCEPT ![w] = DroppedContext(@)]
    /\ cmdq' = [cmdq EXCEPT ![w] = <<>>]
    /\ streams' = DropStreams(streams, OwnedStreams(w))
    /\ UNCHANGED <<controllers, pc, arg, result, out, last, accepted, fed, budget>>
    /\ UNCHANGED <<poolvars, viewvars>>

\* first branch of the select: a view stream yields (view_hash, status). The StreamMap
\* starts its round at a random entry, so any of the ready streams may be the one, and
\* any of the ended streams may have been visited (and removed) before it.
WatcherViewEvent(w) ==
    /\ wstate[w] = "running"
    /\ ~ctx[w].terminate
    /\ \E k \in ReadyKeys(ctx[w]) : \E R \in SUBSET EndedKeys(ctx[w]) :
         LET s == ctx[w].views[k]
             status == NextStatus(streams[s].buf)
             r == handle(ctx[w], status, k)
             read == [streams EXCEPT ![s].buf = AfterNext(@)]
         IN  /\ last' = [last EXCEPT ![w] = ViewInput(w, k, status)]
             /\ IF r.panic
                THEN /\ wstate' = [wstate EXCEPT ![w] = "panicked"]
                     /\ ctx' = [ctx EXCEPT ![w] = DroppedContext(@)]
                     /\ cmdq' = [cmdq EXCEPT ![w] = <<>>]
                     /\ streams' = DropStreams(read, OwnedStreams(w))
                     /\ UNCHANGED out
                ELSE /\ ctx' = [ctx EXCEPT ![w] = WithoutKeys(r.ctx, R)]
                     /\ streams' = DropStreams(read, {ctx[w].views[x] : x \in R})
                     /\ out' = IF r.emit
                               THEN [out EXCEPT ![w] = Append(@, Event(status, s))]
                               ELSE out
                     /\ UNCHANGED <<wstate, cmdq>>
    /\ UNCHANGED <<controllers, pc, arg, result, accepted, fed, budget>>
    /\ UNCHANGED <<poolvars, viewvars>>

\* a select! without biased: the second branch may be polled first
first_branch_skipped(c) == TRUE

\* biased select!: the second branch is polled only after the first was found pending
FirstBranchPending(c) == ReadyKeys(c) = {}

\* second branch of the select, reached when the first is pending: rx yields a command
WatcherCommand(w) ==
    /\ wstate[w] = "running"
    /\ ~ctx[w].terminate
    /\ FirstBranchPending(ctx[w])
    /\ cmdq[w] # <<>>
    /\ LET cmd == Head(cmdq[w])
           c0 == AfterPendingPoll(ctx[w])
           gone == {ctx[w].views[k] : k \in EndedKeys(ctx[w])}
           under == {c0.views[k] : k \in (DOMAIN c0.views) \cap {cmd.block}}
       IN  /\ cmdq' = [cmdq EXCEPT ![w] = Tail(@)]
           /\ last' = [last EXCEPT ![w] = CmdInput(w, cmd)]
           /\ CASE cmd.cmd = "AddView" ->
                     /\ ctx' = [ctx EXCEPT ![w] = add_stream(c0, cmd.block, cmd.sid)]
                     /\ streams' = DropStreams(streams, gone \cup under)
                     /\ UNCHANGED out
                [] cmd.cmd = "RemoveView" ->
                     /\ ctx' = [ctx EXCEPT ![w] = remove_view(c0, cmd.block)]
                     /\ streams' = DropStreams(streams, gone \cup under)
                     /\ UNCHANGED out
                [] cmd.cmd = "InvalidateTransaction" ->
                     LET r == handle_invalidate_transaction(c0) IN
                     /\ ctx' = [ctx EXCEPT ![w] = r.ctx]
                     /\ streams' = DropStreams(streams, gone)
                     /\ out' = IF r.emit
                               THEN [out EXCEPT ![w] = Append(@, Event(Invalid, NoStream))]
                               ELSE out
                [] cmd.cmd = "FinalizeTransaction" ->
                     /\ ctx' = [ctx EXCEPT ![w] = finalize(c0)]
                     /\ streams' = DropStreams(streams, gone)
                     /\ out' = [out EXCEPT ![w] =
                                   Append(@, Event(Finalized(cmd.block, cmd.index), NoStream))]
    /\ UNCHANGED <<controllers, pc, arg, result, wstate, accepted, fed, budget>>
    /\ UNCHANGED <<poolvars, viewvars>>

\* both branches pending (or rx yields None because every sender is gone, which the
\* loop ignores): nothing is handled; the poll of the StreamMap removed the ended streams
WatcherPending(w) ==
    /\ wstate[w] = "running"
    /\ ~ctx[w].terminate
    /\ ReadyKeys(ctx[w]) = {}
    /\ cmdq[w] = <<>>
    /\ ctx' = [ctx EXCEPT ![w] = AfterPendingPoll(@)]
    /\ streams' = DropStreams(streams, {ctx[w].views[k] : k \in EndedKeys(ctx[w])})
    /\ UNCHANGED <<controllers, pc, arg, result, wstate, cmdq, out, last, accepted, fed, budget>>
    /\ UNCHANGED <<poolvars, viewvars>>

\* the consumer drops the external stream
ConsumerDrop(w) ==
    /\ wstate[w] = "running"
    /\ wstate' = [wstate EXCEPT ![w] = "dropped"]
    /\ ctx' = [ctx EXCEPT ![w] = DroppedContext(@)]
    /\ cmdq' = [cmdq EXCEPT ![w] = <<>>]
    /\ streams' = DropStreams(streams, OwnedStreams(w))
    /\ UNCHANGED <<controllers, pc, arg, result, out, last, accepted, fed, budget>>
    /\ UNCHANGED <<poolvars, viewvars>>

\* --------------------------------------------------------- MultiViewListener
\* create_external_watcher_for_tx, up to its first await on the write lock: the read
\* guard of controllers.read().await.contains_key(&tx_hash) is released when the
\* condition has been evaluated
CreateCheck(c, tx_hash) ==
    /\ pc[c] = "idle"
    /\ arg' = [arg EXCEPT ![c] = tx_hash]
    /\ IF controllers[tx_hash] # NoCaller
       THEN /\ pc' = [pc EXCEPT ![c] = "done"]
            /\ result' = [result EXCEPT ![c] = "None"]
       ELSE /\ pc' = [pc EXCEPT ![c] = "checked"]
            /\ UNCHANGED result
    /\ UNCHANGED <<controllers, wstate, ctx, cmdq, out, last, accepted, streams, fed, budget>>
    /\ UNCHANGED <<poolvars, viewvars>>

\* HashMap::insert under the write lock: a sender already stored under the key is
\* replaced (and dropped)
InsertController(ctrl, tx_hash, c) == [ctrl EXCEPT ![tx_hash] = c]

\* create_external_watcher_for_tx, from the write lock on: the controller is inserted
\* and the unfold stream over a new context is returned
CreateInsert(c) ==
    /\ pc[c] = "checked"
    /\ controllers' = InsertController(controllers, arg[c], c)
    /\ pc' = [pc EXCEPT ![c] = "done"]
    /\ result' = [result EXCEPT ![c] = "Some"]
    /\ wstate' = [wstate EXCEPT ![c] = "running"]
    /\ ctx' = [ctx EXCEPT ![c] = NewContext]
    /\ UNCHANGED <<arg, cmdq, out, last, accepted, streams, fed, budget>>
    /\ UNCHANGED <<poolvars, viewvars>>

\* the watchers a command for the hashes H reaches, and the controllers map after the
\* entries whose unbounded_send failed were removed
Receivers(H) ==
    {controllers[h] : h \in {x \in H : controllers[x] # NoCaller /\ ~RxClosed(controllers[x])}}

\* a failed send makes the listener drop every controller whose channel is closed
after_send_prune(H) ==
    [h \in TxHashes |->
        IF Receivers(H) = {} /\ controllers[h] # NoCaller /\ RxClosed(controllers[h])
        THEN NoCaller ELSE controllers[h]]

AfterSend(H) ==
    [h \in TxHashes |->
        IF h \in H /\ controllers[h] # NoCaller /\ RxClosed(controllers[h])
        THEN NoCaller ELSE controllers[h]]

\* unbounded_send(cmd) on the controllers of the hashes H
SendTo(H, cmd) ==
    /\ controllers' = AfterSend(H)
    /\ IF Receivers(H) # {}
       THEN /\ budget.commands >= Cardinality(Receivers(H))
            /\ budget' = [budget EXCEPT !.commands = @ - Cardinality(Receivers(H))]
            /\ cmdq' = [w \in Callers |->
                          IF w \in Receivers(H) THEN Append(cmdq[w], cmd) ELSE cmdq[w]]
            /\ accepted' = [w \in Callers |->
                          IF w \in Receivers(H) THEN accepted[w] \cup {cmd.cmd} ELSE accepted[w]]
       ELSE UNCHANGED <<budget, cmdq, accepted>>

\* add_view_watcher_for_tx: the stream is a new object; it is dropped with the command
\* when there is no controller or the send fails
AddViewWatcherForTx(tx_hash, block_hash) ==
    /\ \E s \in StreamIds :
         /\ streams[s].state = "unused"
         /\ \A x \in StreamIds : streams[x].state = "unused" => s <= x
         /\ SendTo({tx_hash}, AddView(block_hash, s))
         /\ streams' = IF Receivers({tx_hash}) # {}
                       THEN [streams EXCEPT ![s].state = "open"]
                       ELSE streams
    /\ UNCHANGED <<pc, arg, result, wstate, ctx, out, last, fed>>
    /\ UNCHANGED <<poolvars, viewvars>>

\* MultiViewListener::remove_view
RemoveViewCall(block_hash) ==
    /\ SendTo(TxHashes, RemoveView(block_hash))
    /\ UNCHANGED <<pc, arg, result, wstate, ctx, out, last, streams, fed>>
    /\ UNCHANGED <<poolvars, viewvars>>

\* MultiViewListener::invalidate_transactions
InvalidateTransactions(invalid_hashes) ==
    /\ SendTo(invalid_hashes, InvalidateTransaction)
    /\ UNCHANGED <<pc, arg, result, wstate, ctx, out, last, streams, fed>>
    /\ UNCHANGED <<poolvars, viewvars>>

\* MultiViewListener::finalize_transaction
FinalizeTransactionCall(tx_hash, block, idx) ==
    /\ SendTo({tx_hash}, FinalizeTransaction(block, idx))
    /\ UNCHANGED <<pc, arg, result, wstate, ctx, out, last, streams, fed>>
    /\ UNCHANGED <<poolvars, viewvars>>

\* retain(|_, c| c.is_closed()): the predicate is inverted
remove_alive_controllers ==
    /\ controllers' = [h \in TxHashes |->
                          IF controllers[h] # NoCaller /\ ~RxClosed(controllers[h])
                          THEN NoCaller ELSE controllers[h]]
    /\ UNCHANGED <<pc, arg, result, wstate, ctx, cmdq, out, last, accepted, streams, fed, budget>>
    /\ UNCHANGED <<poolvars, viewvars>>

\* MultiViewListener::remove_stale_controllers: retain(|_, c| !c.is_closed())
RemoveStaleControllers ==
    /\ controllers' = AfterSend(TxHashes)
    /\ UNCHANGED <<pc, arg, result, wstate, ctx, cmdq, out, last, accepted, streams, fed, budget>>
    /\ UNCHANGED <<poolvars, viewvars>>

\* ------------------------------------------------------------ the views' side
\* the validated pool of a view writes a status to a stream it handed out
ViewEmit(s, status) ==
    /\ streams[s].state = "open"
    /\ budget.events > 0
    /\ Len(streams[s].buf) < MaxBuf
    /\ streams' = [streams EXCEPT ![s].buf = Append(@, status)]
    /\ budget' = [budget EXCEPT !.events = @ - 1]
    /\ UNCHANGED <<controllers, pc, arg, result, wstate, ctx, cmdq, out, last, accepted, fed>>
    /\ UNCHANGED <<poolvars, viewvars>>

\* the view's side of a stream is dropped: the stream ends after what was written
ViewClose(s) ==
    /\ streams[s].state = "open"
    /\ streams' = [streams EXCEPT ![s].state = "closed"]
    /\ UNCHANGED <<controllers, pc, arg, result, wstate, ctx, cmdq, out, last, accepted, fed,
                   budget>>
    /\ UNCHANGED <<poolvars, viewvars>>

\* the blocks and indexes finalize_transaction is called with
FinalizedAt == {<<"b2", 1>>}

Next ==
    \/ \E c \in Callers, h \in Submitted : CreateCheck(c, h)
    \/ \E c \in Callers : CreateInsert(c)
    \/ \E h \in Submitted, b \in BlockHashes : AddViewWatcherForTx(h, b)
    \/ \E b \in BlockHashes : RemoveViewCall(b)
    \/ \E H \in (SUBSET Submitted) \ {{}} : InvalidateTransactions(H)
    \/ \E h \in Submitted, f \in FinalizedAt : FinalizeTransactionCall(h, f[1], f[2])
    \/ RemoveStaleControllers
    \/ \E s \in StreamIds, st \in ViewStatuses : ViewEmit(s, st)
    \/ \E s \in StreamIds : ViewClose(s)
    \/ \E w \in Callers : WatcherTerminate(w)
    \/ \E w \in Callers : WatcherViewEvent(w)
    \/ \E w \in Callers : WatcherCommand(w)
    \/ \E w \in Callers : WatcherPending(w)
    \/ \E w \in Callers : ConsumerDrop(w)

Spec == Init /\ [][Next]_vars

\* ---------------------------------------------------------------- one watcher
\* the listener after the first create_external_watcher_for_tx call returned its stream
ListenerWithWatcher ==
    /\ controllers = [h \in TxHashes |-> IF h = "ta" THEN 1 ELSE NoCaller]
    /\ pc = [c \in Callers |-> IF c = 1 THEN "done" ELSE "idle"]
    /\ arg = [c \in Callers |-> "ta"]
    /\ result = [c \in Callers |-> IF c = 1 THEN "Some" ELSE "pending"]
    /\ wstate = [c \in Callers |-> IF c = 1 THEN "running" ELSE "none"]
    /\ ctx = [c \in Callers |-> NewContext]
    /\ cmdq = [c \in Callers |-> <<>>]
    /\ out = [c \in Callers |-> <<>>]
    /\ last = [c \in Callers |-> NoInput]
    /\ accepted = [c \in Callers |-> {}]
    /\ streams = [s \in StreamIds |-> NewStream]
    /\ fed = [s \in StreamIds |-> <<>>]
    /\ budget = [events |-> MaxWatcherEvents, commands |-> MaxWatcherCommands]

\* the state after the first create_external_watcher_for_tx call returned its stream
InitWatcher ==
    /\ ListenerWithWatcher
    /\ PoolInit
    /\ ViewNew

\* everything but further create_external_watcher_for_tx calls
NextWatcher ==
    \/ \E h \in Submitted, b \in BlockHashes : AddViewWatcherForTx(h, b)
    \/ \E b \in BlockHashes : RemoveViewCall(b)
    \/ \E H \in (SUBSET Submitted) \ {{}} : InvalidateTransactions(H)
    \/ \E h \in Submitted, f \in FinalizedAt : FinalizeTransactionCall(h, f[1], f[2])
    \/ RemoveStaleControllers
    \/ \E s \in StreamIds, st \in ViewStatuses : ViewEmit(s, st)
    \/ \E s \in StreamIds : ViewClose(s)
    \/ \E w \in Callers : WatcherTerminate(w)
    \/ \E w \in Callers : WatcherViewEvent(w)
    \/ \E w \in Callers : WatcherCommand(w)
    \/ \E w \in Callers : WatcherPending(w)
    \/ \E w \in Callers : ConsumerDrop(w)

SpecWatcher == InitWatcher /\ [][NextWatcher]_vars


\* --------------------------------------------------------------- two watchers
\* the listener after create_external_watcher_for_tx returned a stream for each of two
\* transactions
InitTwo ==
    /\ controllers = [h \in TxHashes |-> IF h = "ta" THEN 1 ELSE 2]
    /\ pc = [c \in Callers |-> IF c <= 2 THEN "done" ELSE "idle"]
    /\ arg = [c \in Callers |-> IF c = 2 THEN "tb" ELSE "ta"]
    /\ result = [c \in Callers |-> IF c <= 2 THEN "Some" ELSE "pending"]
    /\ wstate = [c \in Callers |-> IF c <= 2 THEN "running" ELSE "none"]
    /\ ctx = [c \in Callers |-> NewContext]
    /\ cmdq = [c \in Callers |-> <<>>]
    /\ out = [c \in Callers |-> <<>>]
    /\ last = [c \in Callers |-> NoInput]
    /\ accepted = [c \in Callers |-> {}]
    /\ streams = [s \in StreamIds |-> NewStream]
    /\ fed = [s \in StreamIds |-> <<>>]
    /\ budget = [events |-> MaxWatcherEvents, commands |-> MaxWatcherCommands]
    /\ PoolInit
    /\ ViewNew

\* views are added for both transactions; add_view_watcher_for_tx is the only call made
\* on the listener
NextTwo ==
    \/ \E h \in TxHashes, b \in BlockHashes : AddViewWatcherForTx(h, b)
    \/ \E s \in StreamIds, st \in ViewStatuses : ViewEmit(s, st)
    \/ \E s \in StreamIds : ViewClose(s)
    \/ \E w \in Callers : WatcherTerminate(w)
    \/ \E w \in Callers : WatcherViewEvent(w)
    \/ \E w \in Callers : WatcherCommand(w)
    \/ \E w \in Callers : WatcherPending(w)
    \/ \E w \in Callers : ConsumerDrop(w)

SpecTwo == InitTwo /\ [][NextTwo]_vars

\* ---------------------------------------------------------- stale controllers
\* one watcher exists; another create_external_watcher_for_tx call may be made for either
\* transaction, consumers drop their streams, views are added, and the controllers are
\* pruned
NextStale ==
    \/ \E c \in Callers, h \in TxHashes : CreateCheck(c, h)
    \/ \E c \in Callers : CreateInsert(c)
    \/ \E h \in TxHashes, b \in BlockHashes : AddViewWatcherForTx(h, b)
    \/ RemoveStaleControllers
    \/ \E s \in StreamIds, st \in ViewStatuses : ViewEmit(s, st)
    \/ \E w \in Callers : WatcherViewEvent(w)
    \/ \E w \in Callers : WatcherCommand(w)
    \/ \E w \in Callers : ConsumerDrop(w)

\* remove_stale_controllers keeps being called
SpecStale == InitWatcher /\ [][NextStale]_vars /\ WF_vars(RemoveStaleControllers)

\* ------------------------------------------------------- streams built up front
SeqsUpTo(S, n) == UNION {[1..k -> S] : k \in 0..n}

\* the state after create_external_watcher_for_tx and one or two
\* add_view_watcher_for_tx(tx, block, stream::iter(events)) calls, as the tests make
\* them: the streams hold their events from the start, and end after them or stay pending
InitFeed ==
    \E f1 \in SeqsUpTo(ViewStatuses, MaxFeed) :
    \E f2 \in SeqsUpTo(ViewStatuses, MaxFeed - Len(f1)) :
    \E e1 \in {"open", "closed"}, e2 \in {"unused", "open", "closed"} :
        /\ e2 = "unused" => f2 = <<>>
        /\ controllers = [h \in TxHashes |-> IF h = "ta" THEN 1 ELSE NoCaller]
        /\ pc = [c \in Callers |-> IF c = 1 THEN "done" ELSE "idle"]
        /\ arg = [c \in Callers |-> "ta"]
        /\ result = [c \in Callers |-> IF c = 1 THEN "Some" ELSE "pending"]
        /\ wstate = [c \in Callers |-> IF c = 1 THEN "running" ELSE "none"]
        /\ ctx = [c \in Callers |-> NewContext]
        /\ cmdq = [c \in Callers |->
                     IF c # 1 THEN <<>>
                     ELSE IF e2 = "unused" THEN <<AddView("b1", 1)>>
                     ELSE <<AddView("b1", 1), AddView("b2", 2)>>]
        /\ out = [c \in Callers |-> <<>>]
        /\ last = [c \in Callers |-> NoInput]
        /\ accepted = [c \in Callers |-> IF c = 1 THEN {"AddView"} ELSE {}]
        /\ streams = [s \in StreamIds |->
                        IF s = 1 THEN [state |-> e1, buf |-> f1]
                        ELSE IF s = 2 THEN [state |-> e2, buf |-> f2]
                        ELSE NewStream]
        /\ fed = [s \in StreamIds |-> IF s = 1 THEN f1 ELSE IF s = 2 THEN f2 ELSE <<>>]
        /\ budget = [events |-> 0, commands |-> 0]
        /\ PoolInit
        /\ ViewNew

\* the consumer collects the external stream
NextFeed ==
    \/ \E w \in Callers : WatcherTerminate(w)
    \/ \E w \in Callers : WatcherViewEvent(w)
    \/ \E w \in Callers : WatcherCommand(w)
    \/ \E w \in Callers : WatcherPending(w)

SpecFeed == InitFeed /\ [][NextFeed]_vars


\* ----------------------------------------------------------- TxMemPool calls
Buffered(h) == transactions[h] # NoEntry

\* an insert that keeps the entry already stored under the hash
insert_if_absent(trs, h, entry) == IF trs[h] # NoEntry THEN trs ELSE [trs EXCEPT ![h] = entry]

\* HashMap::insert: an entry stored under the hash is replaced
Insert(trs, h, entry) == [trs EXCEPT ![h] = entry]

\* The batch of a revalidation holds clones of the Arcs of the map. An insert under a
\* hash puts a new object there: the objects that batches hold for the hashes H are no
\* longer the ones of the map (current becomes FALSE).
Detach(rev, H) ==
    [p \in Purges |->
        [rev[p] EXCEPT !.batch =
            {[hash |-> b.hash, current |-> b.current /\ b.hash \notin H] : b \in @}]]

\* TxMemPool::push_unwatched
PushUnwatched(xt) ==
    /\ transactions' = Insert(transactions, hash_and_length(xt), new_unwatched(xt))
    /\ revalidation' = Detach(revalidation, {hash_and_length(xt)})
    /\ UNCHANGED <<finalized, removal>>
    /\ remove_watched_call' = NoRemoveWatched
    /\ UNCHANGED <<mvlvars, viewvars>>

\* the for_each of extend_unwatched over xts
RECURSIVE extend(_, _)
extend(trs, xts) ==
    IF xts = <<>> THEN trs
    ELSE extend(Insert(trs, hash_and_length(Head(xts)), new_unwatched(Head(xts))), Tail(xts))

\* TxMemPool::extend_unwatched
ExtendUnwatched(xts) ==
    /\ transactions' = extend(transactions, xts)
    /\ revalidation' =
          Detach(revalidation, {hash_and_length(xts[i]) : i \in 1..Len(xts)})
    /\ UNCHANGED <<finalized, removal>>
    /\ remove_watched_call' = NoRemoveWatched
    /\ UNCHANGED <<mvlvars, viewvars>>

\* TxMemPool::push_watched
PushWatched(xt) ==
    /\ transactions' = Insert(transactions, hash_and_length(xt), new_watched(xt))
    /\ revalidation' = Detach(revalidation, {hash_and_length(xt)})
    /\ UNCHANGED <<finalized, removal>>
    /\ remove_watched_call' = NoRemoveWatched
    /\ UNCHANGED <<mvlvars, viewvars>>

\* a remove_watched that spares the entries that are not watched
retain_other_and_unwatched(trs, xt) ==
    [h \in PoolHashes |->
        IF trs[h] # NoEntry /\ trs[h].tx = xt /\ trs[h].watched THEN NoEntry ELSE trs[h]]

\* retain(|_, t| *t.tx != *xt)
retain_other(trs, xt) ==
    [h \in PoolHashes |-> IF trs[h] # NoEntry /\ trs[h].tx = xt THEN NoEntry ELSE trs[h]]

\* the call that last took an entry out of the map: this one (by), when the map after
\* it lacks an entry it held before
Removal(by, after) ==
    IF \E h \in PoolHashes : transactions[h] # NoEntry /\ after[h] = NoEntry
    THEN by ELSE removal

\* TxMemPool::remove_watched
RemoveWatched(xt) ==
    /\ transactions' = retain_other(transactions, xt)
    /\ removal' = Removal("remove_watched", retain_other(transactions, xt))
    /\ remove_watched_call' =
          [xt |-> xt,
           unwatched |-> \E h \in PoolHashes :
                            transactions[h].tx = xt /\ ~transactions[h].watched]
    /\ UNCHANGED <<revalidation, finalized>>
    /\ UNCHANGED <<mvlvars, viewvars>>

\* a removal that clears the map
remove_everything(trs, hashes) == [h \in PoolHashes |-> NoEntry]

\* transactions.remove(t) for each t of hashes
remove_all(trs, hashes) == [h \in PoolHashes |-> IF h \in hashes THEN NoEntry ELSE trs[h]]

\* TxMemPool::purge_finalized_transactions
PurgeFinalizedTransactions(finalized_xts) ==
    /\ transactions' = remove_all(transactions, finalized_xts)
    /\ removal' = Removal("purge_finalized_transactions",
                          remove_all(transactions, finalized_xts))
    /\ UNCHANGED <<revalidation, finalized>>
    /\ remove_watched_call' = NoRemoveWatched
    /\ UNCHANGED <<mvlvars, viewvars>>

\* a filter with <= in the place of <
eligible_not_strict(trs, number) ==
    {h \in PoolHashes :
        trs[h] # NoEntry /\ trs[h].validated_at + TXMEMPOOL_REVALIDATION_PERIOD <= number}

\* the filter of revalidate: validated_at + TXMEMPOOL_REVALIDATION_PERIOD < number
Eligible(trs, number) ==
    {h \in PoolHashes :
        trs[h] # NoEntry /\ trs[h].validated_at + TXMEMPOOL_REVALIDATION_PERIOD < number}

Min(a, b) == IF a <= b THEN a ELSE b

\* a take(limit) over the unsorted entries
take_unsorted(trs, E, limit) ==
    {B \in SUBSET E : Cardinality(B) = IF limit <= Cardinality(E) THEN limit ELSE Cardinality(E)}

\* sorted_by_key(validated_at).take(limit): the sort is stable over the order the HashMap
\* iterates in, which is any, so entries of equal validated_at come in any order
TakeOldest(trs, E, limit) ==
    {B \in SUBSET E :
        /\ Cardinality(B) = Min(limit, Cardinality(E))
        /\ \A x \in B, y \in E \ B : trs[x].validated_at <= trs[y].validated_at}

\* the input of revalidate: the hashes taken, each with the object stored under it
BatchOf(B) == {[hash |-> h, current |-> TRUE] : h \in B}
Hashes(batch) == {b.hash : b \in batch}
Validated(r) == {x.hash : x \in r.results}
VerdictOf(r, h) == (CHOOSE x \in r.results : x.hash = h).verdict

\* purge_transactions, up to the join_all of revalidate: the snapshot is taken under the
\* read lock and the validations are started
PurgeStart(p, number) ==
    /\ revalidation[p].pc \in {"idle", "returned"}
    /\ number > finalized
    /\ finalized' = number
    /\ \E B \in TakeOldest(transactions, Eligible(transactions, number), MaxBatch) :
         revalidation' = [revalidation EXCEPT ![p] =
             [pc |-> "validating", number |-> number, batch |-> BatchOf(B),
              results |-> {}, invalid |-> {}]]
    /\ UNCHANGED <<transactions, removal>>
    /\ remove_watched_call' = NoRemoveWatched
    /\ UNCHANGED <<mvlvars, viewvars>>

\* a revalidation that stores nothing
store_nothing(trs, b, number) == trs

\* a revalidation that stores the number of the block before
store_parent_number(trs, b, number) ==
    IF trs[b.hash] # NoEntry /\ b.current
    THEN [trs EXCEPT ![b.hash].validated_at = number - 1]
    ELSE trs

\* xt.validated_at.store(number) on the object the batch holds: it shows in the map when
\* the object is still the one stored under its hash
store_validated_at(trs, b, number) ==
    IF trs[b.hash] # NoEntry /\ b.current
    THEN [trs EXCEPT ![b.hash].validated_at = number]
    ELSE trs

\* one validate_transaction future of the batch completes with a verdict
ValidationDone(p, b, verdict) ==
    /\ revalidation[p].pc = "validating"
    /\ b \in revalidation[p].batch
    /\ b.hash \notin Validated(revalidation[p])
    /\ transactions' = store_validated_at(transactions, b, revalidation[p].number)
    /\ revalidation' = [revalidation EXCEPT ![p].results =
                            @ \cup {[hash |-> b.hash, verdict |-> verdict]}]
    /\ UNCHANGED <<finalized, removal>>
    /\ remove_watched_call' = NoRemoveWatched
    /\ UNCHANGED <<mvlvars, viewvars>>

\* a match that keeps Ok(Ok(_)) only
evicts_future(verdict) == verdict # "Valid"

\* the match of revalidate's filter_map: None for Ok(Ok(_)) and Invalid(Future),
\* Some(xt_hash) for Err(_), Unknown(_) and every other Invalid(_)
Evicts(verdict) == verdict \notin {"Valid", "InvalidFuture"}

invalid_hashes(r) == {x.hash : x \in {y \in r.results : Evicts(y.verdict)}}

\* purge_transactions, from the return of revalidate on: the invalid hashes are removed
\* under the write lock. The future that listener.invalidate_transactions(invalid_hashes)
\* returns is dropped without being awaited, so its body does not run and no command is
\* sent.
PurgeFinish(p) ==
    /\ revalidation[p].pc = "validating"
    /\ Validated(revalidation[p]) = Hashes(revalidation[p].batch)
    /\ transactions' = remove_all(transactions, invalid_hashes(revalidation[p]))
    /\ removal' = Removal("purge_transactions",
                          remove_all(transactions, invalid_hashes(revalidation[p])))
    /\ revalidation' = [revalidation EXCEPT ![p] =
          [pc |-> "returned", number |-> @.number, batch |-> {}, results |-> @.results,
           invalid |-> invalid_hashes(@)]]
    /\ UNCHANGED finalized
    /\ remove_watched_call' = NoRemoveWatched
    /\ UNCHANGED <<mvlvars, viewvars>>

\* the vectors extend_unwatched is called with: one body, two bodies, one body twice
ExtendInputs == {<<"xa">>, <<"xa", "xb">>, <<"xb", "xc">>, <<"xc", "xc">>}

\* the hashes purge_finalized_transactions is called with: one, or all of them
FinalizedXts == {{h} : h \in PoolHashes} \cup {PoolHashes}

\* the memory pool next to a listener that holds one watcher; purge_transactions is
\* called again when the call before has returned
InitPool == InitWatcher
Sequential == {p \in Purges : \A q \in Purges : p <= q}

NextPool ==
    \/ \E xt \in Xts : PushUnwatched(xt)
    \/ \E xts \in ExtendInputs : ExtendUnwatched(xts)
    \/ \E xt \in Xts : PushWatched(xt)
    \/ \E xt \in Xts : RemoveWatched(xt)
    \/ \E H \in FinalizedXts : PurgeFinalizedTransactions(H)
    \/ \E p \in Sequential, n \in FinalizedNumbers : PurgeStart(p, n)
    \/ \E p \in Sequential : \E b \in revalidation[p].batch, v \in Verdicts :
          ValidationDone(p, b, v)
    \/ \E p \in Sequential : PurgeFinish(p)

SpecPool == InitPool /\ [][NextPool]_vars

\* ------------------------------------------------- purge_transactions calls overlap
\* the transactions pushed before the calls, by push_unwatched: any of the bodies
Pushed == [PoolHashes -> {NoEntry} \cup {new_unwatched(xt) : xt \in Xts}]

\* the pool holds the transactions pushed, none validated yet
InitOverlap ==
    /\ ListenerWithWatcher
    /\ transactions \in {t \in Pushed :
                            \A h \in PoolHashes : t[h] # NoEntry => hash_and_length(t[h].tx) = h}
    /\ revalidation = [p \in Purges |-> NoRevalidation]
    /\ finalized = 0
    /\ removal = "none"
    /\ remove_watched_call = NoRemoveWatched
    /\ ViewNew

\* purge_transactions is called for a new finalized block while calls made for earlier
\* blocks still wait for their validations
NextOverlap ==
    \/ \E p \in Purges, n \in FinalizedNumbers : PurgeStart(p, n)
    \/ \E p \in Purges : \E b \in revalidation[p].batch, v \in Verdicts :
          ValidationDone(p, b, v)
    \/ \E p \in Purges : PurgeFinish(p)

SpecOverlap == InitOverlap /\ [][NextOverlap]_vars

\* ----------------------------------------------------------------- View actions
\* the revalidations started so far take the first identities
Started == {r \in Revalidations : worker[r].pc # "unused"}

\* the workers that run revalidate_later
Active == {r \in Revalidations : worker[r].pc \in {"select", "validating", "send"}}

\* the worker's endpoints of both channels live until revalidate_later returns
WorkerAlive(r) == worker[r].pc \in {"queued", "select", "validating", "send"}

\* validated_pool.ready().map(|tx| tx.hash)
ready(pool) == {h \in ViewHashes : pool[h].ready}

\* what the maintain side's endpoints of a revalidation become when the value that held
\* them is dropped: a result buffered for the receiver goes with it
DropLocalChannels(ch, v) ==
    IF v = NoChannels THEN ch
    ELSE [ch EXCEPT ![v.revalidation].finish_revalidation_request_tx = FALSE,
                    ![v.revalidation].revalidation_result = NoResult,
                    ![v.revalidation].revalidation_result_rx = FALSE]

\* View::submit_many, View::submit_and_watch: the pool validates at View.at and imports
Submit(h) ==
    /\ calls.made < MaxViewCalls
    /\ ~vpool[h].ready
    /\ vpool' = [vpool EXCEPT ![h] = valid_at(at.number)]
    /\ calls' = Called("submit")
    /\ UNCHANGED <<revalidation_worker_channels, maintain, worker, chan, applied, returned>>
    /\ UNCHANGED <<mvlvars, poolvars>>

\* View::start_background_revalidation: the new endpoints replace what the view held, and
\* the worker's endpoints are queued for a worker
StartBackgroundRevalidation(r) ==
    /\ calls.made < MaxViewCalls
    /\ maintain.pc = "idle"
    /\ r \notin Started
    /\ \A q \in Revalidations : q < r => q \in Started
    /\ chan' = [DropLocalChannels(chan, revalidation_worker_channels) EXCEPT ![r] = NewChannel]
    /\ revalidation_worker_channels' = FinishRevalidationLocalChannels(r)
    /\ worker' = [worker EXCEPT ![r].pc = "queued"]
    /\ calls' = Called("start_background_revalidation")
    /\ UNCHANGED <<vpool, maintain, applied, returned>>
    /\ UNCHANGED <<mvlvars, poolvars>>

\* a worker of the queue takes the revalidation and enters revalidate_later: the batch
\* is the ready set as it is now
WorkerBegin(r) ==
    /\ worker[r].pc = "queued"
    /\ Cardinality(Active) < WorkerPoolSize
    /\ worker' = [worker EXCEPT ![r].pc = "select", ![r].batch = ready(vpool)]
    /\ UNCHANGED <<vpool, revalidation_worker_channels, maintain, chan, applied, returned,
                   calls>>
    /\ UNCHANGED <<mvlvars, poolvars>>

\* the worker task of the queue has gone away: the revalidation queued for it is dropped
\* with the worker's endpoints of both channels, and revalidate_later is never entered
WorkerGone(r) ==
    /\ worker[r].pc = "queued"
    /\ worker' = [worker EXCEPT ![r].pc = "done"]
    /\ UNCHANGED <<vpool, revalidation_worker_channels, maintain, chan, applied, returned,
                   calls>>
    /\ UNCHANGED <<mvlvars, poolvars>>

\* finish_revalidation_request_rx.recv() is ready: a request is buffered, or every sender
\* is gone
RecvReady(r) ==
    \/ chan[r].finish_revalidation_request > 0
    \/ ~chan[r].finish_revalidation_request_tx

\* select!, first branch: the request is received (or the channel is closed), a validation
\* in progress is dropped with the other branch, and the loop is left
WorkerFinishRequested(r) ==
    /\ worker[r].pc \in {"select", "validating"}
    /\ RecvReady(r)
    /\ chan' = [chan EXCEPT ![r].finish_revalidation_request = 0]
    /\ worker' = [worker EXCEPT ![r].pc = "send", ![r].batch = {}, ![r].ext_hash = "none"]
    /\ UNCHANGED <<vpool, revalidation_worker_channels, maintain, applied, returned, calls>>
    /\ UNCHANGED <<mvlvars, poolvars>>

\* select!, second branch, batch_iter.next() is Some(ext_hash): a transaction that is still
\* ready is handed to api.validate_transaction, one that is not is passed over
WorkerNext(r, h) ==
    /\ worker[r].pc = "select"
    /\ h \in worker[r].batch
    /\ worker' = [worker EXCEPT
                    ![r].batch = @ \ {h},
                    ![r].pc = IF vpool[h].ready THEN "validating" ELSE "select",
                    ![r].ext_hash = IF vpool[h].ready THEN h ELSE "none"]
    /\ UNCHANGED <<vpool, revalidation_worker_channels, maintain, chan, applied, returned,
                   calls>>
    /\ UNCHANGED <<mvlvars, poolvars>>

\* api.validate_transaction(self.at.hash, ..) resolves and the result is pushed
WorkerValidated(r, verdict) ==
    /\ worker[r].pc = "validating"
    /\ worker' = [worker EXCEPT
                    ![r].validation_results =
                        @ \cup {[hash |-> worker[r].ext_hash, verdict |-> verdict]},
                    ![r].pc = "select",
                    ![r].ext_hash = "none"]
    /\ UNCHANGED <<vpool, revalidation_worker_channels, maintain, chan, applied, returned,
                   calls>>
    /\ UNCHANGED <<mvlvars, poolvars>>

\* select!, second branch, batch_iter.next() is None: the sender is removed from the
\* endpoints the view holds now, and the loop is left
WorkerExhausted(r) ==
    /\ worker[r].pc = "select"
    /\ worker[r].batch = {}
    /\ IF revalidation_worker_channels = NoChannels
       THEN UNCHANGED <<revalidation_worker_channels, chan>>
       ELSE /\ revalidation_worker_channels' = remove_sender(revalidation_worker_channels)
            /\ chan' = [chan EXCEPT ![revalidation_worker_channels.revalidation]
                                        .finish_revalidation_request_tx = FALSE]
    /\ worker' = [worker EXCEPT ![r].pc = "send"]
    /\ UNCHANGED <<vpool, maintain, applied, returned, calls>>
    /\ UNCHANGED <<mvlvars, poolvars>>

\* the match puts Unknown in the arm of the invalid verdicts, as the revalidation of the
\* memory pool does
classify_unknown_invalid(verdict) ==
    CASE verdict \in {"InvalidFuture", "InvalidStale", "Unknown"} -> "invalid"
      [] verdict = "Valid" -> "revalidated"
      [] verdict = "TransportError" -> "invalid"

\* the match on a validation result: which of the two collections it goes to
Classify(verdict) ==
    CASE verdict \in {"InvalidFuture", "InvalidStale"} -> "invalid"
      [] verdict = "Unknown" -> "skipped"
      [] verdict = "Valid" -> "revalidated"
      [] verdict = "TransportError" -> "invalid"

\* invalid_hashes after the loop over validation_results
view_invalid_hashes(results) == {x.hash : x \in {y \in results : Classify(y.verdict) = "invalid"}}

\* revalidated after the loop over validation_results: valid_at(self.at.number, ..)
revalidated(results) ==
    {[hash |-> x.hash, valid_at |-> at.number] :
        x \in {y \in results : Classify(y.verdict) = "revalidated"}}

\* the result is buffered whether or not the receiver is alive
deliver_always(ch, r, message) == [ch EXCEPT ![r].revalidation_result = message]

\* revalidation_result_tx.send(..): the message is buffered for a receiver that is
\* alive, and dropped with an error that is only logged for one that is gone
Deliver(ch, r, message) ==
    IF ch[r].revalidation_result_rx
    THEN [ch EXCEPT ![r].revalidation_result = message]
    ELSE ch

\* revalidate_later returns when the loop is left, and no result is sent
return_without_result(r) ==
    /\ worker[r].pc = "send"
    /\ chan' = [chan EXCEPT ![r].finish_revalidation_request = 0]
    /\ worker' = [worker EXCEPT ![r].pc = "done"]
    /\ UNCHANGED <<vpool, revalidation_worker_channels, maintain, applied, returned, calls>>
    /\ UNCHANGED <<mvlvars, poolvars>>

\* the worker classifies what it collected, sends the result and returns
WorkerSend(r) ==
    /\ worker[r].pc = "send"
    /\ chan' = Deliver([chan EXCEPT ![r].finish_revalidation_request = 0], r,
                       RevalidationResult(view_invalid_hashes(worker[r].validation_results),
                                          revalidated(worker[r].validation_results)))
    /\ worker' = [worker EXCEPT ![r].pc = "done"]
    /\ UNCHANGED <<vpool, revalidation_worker_channels, maintain, applied, returned, calls>>
    /\ UNCHANGED <<mvlvars, poolvars>>

\* finish_revalidation goes on without looking whether the view holds endpoints: it
\* waits on the result channel of the revalidation started last
finish_without_endpoints ==
    /\ calls.made < MaxViewCalls
    /\ maintain.pc = "idle"
    /\ revalidation_worker_channels = NoChannels
    /\ Started # {}
    /\ maintain' = [pc |-> "recv",
                    revalidation |-> Cardinality(Started),
                    finish_revalidation_request_tx |-> FALSE]
    /\ calls' = Called("finish_revalidation")
    /\ UNCHANGED <<vpool, revalidation_worker_channels, worker, chan, applied, returned>>
    /\ UNCHANGED <<mvlvars, poolvars>>

\* View::finish_revalidation, the endpoints are None: it returns
FinishNoChannels ==
    /\ calls.made < MaxViewCalls
    /\ maintain.pc = "idle"
    /\ revalidation_worker_channels = NoChannels
    /\ calls' = Called("finish_revalidation")
    /\ UNCHANGED <<vpool, revalidation_worker_channels, maintain, worker, chan, applied,
                   returned>>
    /\ UNCHANGED <<mvlvars, poolvars>>

\* View::finish_revalidation, lock().take()
FinishTake ==
    /\ calls.made < MaxViewCalls
    /\ maintain.pc = "idle"
    /\ revalidation_worker_channels # NoChannels
    /\ maintain' = [pc |-> "send",
                    revalidation |-> revalidation_worker_channels.revalidation,
                    finish_revalidation_request_tx |->
                        revalidation_worker_channels.finish_revalidation_request_tx]
    /\ revalidation_worker_channels' = NoChannels
    /\ calls' = Called("finish_revalidation")
    /\ UNCHANGED <<vpool, worker, chan, applied, returned>>
    /\ UNCHANGED <<mvlvars, poolvars>>

\* View::finish_revalidation: a sender that is still there sends the request (an error is
\* only logged) and is dropped
FinishSend ==
    /\ maintain.pc = "send"
    /\ chan' = [chan EXCEPT
                  ![maintain.revalidation].finish_revalidation_request =
                      IF maintain.finish_revalidation_request_tx
                         /\ WorkerAlive(maintain.revalidation)
                      THEN 1 ELSE @,
                  ![maintain.revalidation].finish_revalidation_request_tx = FALSE]
    /\ maintain' = [maintain EXCEPT !.pc = "recv", !.finish_revalidation_request_tx = FALSE]
    /\ UNCHANGED <<vpool, revalidation_worker_channels, worker, applied, returned, calls>>
    /\ UNCHANGED <<mvlvars, poolvars>>

\* validated_pool.remove_invalid(&invalid_hashes)
remove_invalid(pool, hashes) == [h \in ViewHashes |-> IF h \in hashes THEN NotInPool ELSE pool[h]]

\* self.pool.resubmit(revalidated), made when revalidated is not empty
resubmit(pool, updated) ==
    [h \in ViewHashes |->
        IF \E x \in updated : x.hash = h
        THEN valid_at((CHOOSE x \in updated : x.hash = h).valid_at)
        ELSE pool[h]]

\* the result is used for the evictions only, the revalidated transactions are not resubmitted
apply_remove_only(pool, message) == remove_invalid(pool, message.invalid_hashes)

\* what finish_revalidation does with a result it received
Apply(pool, message) ==
    resubmit(remove_invalid(pool, message.invalid_hashes), message.revalidated)

\* View::finish_revalidation, revalidation_result_rx.recv() gives a result: it is applied
FinishApply ==
    /\ maintain.pc = "recv"
    /\ chan[maintain.revalidation].revalidation_result.sent
    /\ vpool' = Apply(vpool, chan[maintain.revalidation].revalidation_result)
    /\ applied' = [applied EXCEPT ![maintain.revalidation] = @ + 1]
    /\ chan' = [chan EXCEPT ![maintain.revalidation].revalidation_result = NoResult,
                            ![maintain.revalidation].revalidation_result_rx = FALSE]
    /\ returned' = returned \cup {maintain.revalidation}
    /\ maintain' = Idle
    /\ UNCHANGED <<revalidation_worker_channels, worker, calls>>
    /\ UNCHANGED <<mvlvars, poolvars>>

\* finish_revalidation polls the result channel once instead of waiting for the worker,
\* and the receiver outlives the call
finish_without_waiting ==
    /\ maintain.pc = "recv"
    /\ ~chan[maintain.revalidation].revalidation_result.sent
    /\ returned' = returned \cup {maintain.revalidation}
    /\ maintain' = Idle
    /\ UNCHANGED <<vpool, revalidation_worker_channels, worker, chan, applied, calls>>
    /\ UNCHANGED <<mvlvars, poolvars>>

\* View::finish_revalidation, revalidation_result_rx.recv() gives None: the worker is gone
\* and nothing is buffered
FinishClosed ==
    /\ maintain.pc = "recv"
    /\ ~chan[maintain.revalidation].revalidation_result.sent
    /\ ~WorkerAlive(maintain.revalidation)
    /\ chan' = [chan EXCEPT ![maintain.revalidation].revalidation_result_rx = FALSE]
    /\ returned' = returned \cup {maintain.revalidation}
    /\ maintain' = Idle
    /\ UNCHANGED <<vpool, revalidation_worker_channels, worker, applied, calls>>
    /\ UNCHANGED <<mvlvars, poolvars>>

\* a view made by new_from_other: the pool is a copy of the other view's, with
\* transactions validated at an earlier block, and no revalidation was started
InitView ==
    /\ ListenerWithWatcher
    /\ PoolInit
    /\ vpool \in [ViewHashes -> {NotInPool, valid_at(at.number - 1)}]
    /\ NoRevalidations

NextView ==
    \/ \E h \in ViewHashes : Submit(h)
    \/ \E r \in Revalidations : StartBackgroundRevalidation(r)
    \/ \E r \in Revalidations : WorkerBegin(r)
    \/ \E r \in Revalidations : WorkerGone(r)
    \/ \E r \in Revalidations : WorkerFinishRequested(r)
    \/ \E r \in Revalidations, h \in ViewHashes : WorkerNext(r, h)
    \/ \E r \in Revalidations, v \in Verdicts : WorkerValidated(r, v)
    \/ \E r \in Revalidations : WorkerExhausted(r)
    \/ \E r \in Revalidations : WorkerSend(r)
    \/ FinishNoChannels
    \/ FinishTake
    \/ FinishSend
    \/ FinishApply
    \/ FinishClosed

SpecView == InitView /\ [][NextView]_vars

\* the steps of the worker of one revalidation, the chain api's answer included
WorkerStep(r) ==
    \/ WorkerBegin(r)
    \/ WorkerFinishRequested(r)
    \/ \E h \in ViewHashes : WorkerNext(r, h)
    \/ \E v \in Verdicts : WorkerValidated(r, v)
    \/ WorkerExhausted(r)
    \/ WorkerSend(r)

\* a view made by new_from_other of a view with every transaction ready
InitViewFair ==
    /\ ListenerWithWatcher
    /\ PoolInit
    /\ vpool = [h \in ViewHashes |-> valid_at(at.number - 1)]
    /\ NoRevalidations

\* the maintain thread's calls and the workers, nothing is submitted
NextViewFair ==
    \/ \E r \in Revalidations : StartBackgroundRevalidation(r)
    \/ \E r \in Revalidations : WorkerGone(r)
    \/ \E r \in Revalidations : WorkerStep(r)
    \/ FinishNoChannels
    \/ FinishTake
    \/ FinishSend
    \/ FinishApply
    \/ FinishClosed

\* the runtime keeps polling a worker that can go on, and the chain api answers
SpecViewFair ==
    /\ InitViewFair
    /\ [][NextViewFair]_vars
    /\ \A r \in Revalidations : WF_vars(WorkerStep(r))

\* the maintain thread goes on with finish_revalidation when the channel it awaits is
\* ready, next to the fairness of the workers
SpecViewLive ==
    /\ InitViewFair
    /\ [][NextViewFair]_vars
    /\ \A r \in Revalidations : WF_vars(WorkerStep(r))
    /\ WF_vars(FinishSend)
    /\ WF_vars(FinishApply)
    /\ WF_vars(FinishClosed)

\* ===================================================================== claims
Statuses(o) == [i \in 1..Len(o) |-> o[i].status]
Times(o, P(_)) == Cardinality({i \in 1..Len(o) : P(o[i].status)})
Terminal(status) == status.kind \in {"Finalized", "Invalid"}
EndsWithTerminal(o) == o # <<>> /\ Terminal(o[Len(o)].status)
HandledCmd(w, kind) == last[w].src = "cmd" /\ last[w].kind = kind
HandledView(w, kinds) == last[w].src = "view" /\ last[w].kind \in kinds

\* the next poll of w's external stream yields None, whatever is waiting in the view
\* streams and in the command channel
StreamEndsNext(w) ==
    /\ ENABLED WatcherTerminate(w)
    /\ ~ENABLED WatcherViewEvent(w)
    /\ ~ENABLED WatcherCommand(w)
    /\ ~ENABLED WatcherPending(w)

\* C1: at any time at most one watcher lives per transaction hash, and the controller a
\* successful create_external_watcher_for_tx call installed stays the one of its hash
\* as long as its watcher lives (no later call replaces it), also when calls overlap.
C1_OneWatcherPerTx ==
    /\ \A h \in TxHashes :
         Cardinality({w \in Callers : wstate[w] = "running" /\ arg[w] = h}) <= 1
    /\ \A w \in Callers : wstate[w] = "running" => controllers[arg[w]] = w

\* C2: in the external stream of a watcher Future, Ready and Broadcast each appear at
\* most once, and InBlock((b, _)) at most once per block b.
C2_Dedup ==
    \A w \in Callers :
        /\ \A k \in {"Future", "Ready", "Broadcast"} :
              Times(out[w], LAMBDA st : st.kind = k) <= 1
        /\ \A b \in BlockHashes :
              Times(out[w], LAMBDA st : st.kind = "InBlock" /\ st.block = b) <= 1

\* two views have both reported Future or Ready, and a Ready went out
C2_Witness ==
    \E w \in Callers :
        /\ ctx[w].views_keeping_tx_valid = BlockHashes
        /\ Times(out[w], LAMBDA st : st = Ready) = 1
        /\ HandledView(w, {"Ready"})

\* C3: the external stream ends only after a Finalized or Invalid, that event is the
\* last and only terminal one, and once it was yielded the stream's next poll ends it
\* without another event, whatever view events or commands wait.
C3_TerminalLast ==
    \A w \in Callers :
        /\ wstate[w] = "ended" => EndsWithTerminal(out[w])
        /\ \A i \in 1..Len(out[w]) : Terminal(out[w][i].status) => i = Len(out[w])
        /\ wstate[w] = "running" /\ EndsWithTerminal(out[w]) => StreamEndsNext(w)
        /\ wstate[w] = "running" /\ ~EndsWithTerminal(out[w]) => ~ENABLED WatcherTerminate(w)

\* a terminal event was yielded while a view event and a command wait
C3_Witness ==
    \E w \in Callers :
        /\ wstate[w] = "running"
        /\ EndsWithTerminal(out[w])
        /\ Len(out[w]) >= 2
        /\ cmdq[w] # <<>>
        /\ ReadyKeys(ctx[w]) # {}

\* C4: an InvalidateTransaction handled while a live view (added, not removed, stream
\* not ended) has reported Future or Ready sends out no Invalid and does not terminate
\* the watcher.
C4_InvalidateSuppressed ==
    \A w \in Callers :
        HandledCmd(w, "InvalidateTransaction") /\ last[w].kept =>
            /\ ~ctx[w].terminate
            /\ wstate[w] # "ended"
            /\ ~EndsWithTerminal(out[w])

C4_Witness ==
    \E w \in Callers :
        /\ HandledCmd(w, "InvalidateTransaction")
        /\ last[w].kept
        /\ wstate[w] = "running"
        /\ out[w] # <<>>

\* C5: an InvalidateTransaction handled while no live view is in views_keeping_tx_valid
\* (before any view was added, or after remove_view took those views away) sends out
\* Invalid as the last event, and the stream ends.
C5_InvalidateTerminates ==
    \A w \in Callers :
        HandledCmd(w, "InvalidateTransaction") /\ ~last[w].kept =>
            /\ out[w] # <<>>
            /\ out[w][Len(out[w])] = Event(Invalid, NoStream)
            /\ ctx[w].terminate
            /\ wstate[w] = "running" => StreamEndsNext(w)

\* Invalid went out after remove_view took away a view that had reported
C5_Witness ==
    \E w \in Callers :
        /\ HandledCmd(w, "InvalidateTransaction")
        /\ ~last[w].kept
        /\ ctx[w].views_keeping_tx_valid # {}
        /\ "RemoveView" \in accepted[w]
        /\ wstate[w] = "ended"

\* C6: a view whose stream has ended does not count as subscribed: when every view in
\* views_keeping_tx_valid has ended its stream (none was removed by remove_view), an
\* InvalidateTransaction handled then sends out Invalid and terminates the watcher.
C6_EndedViewsDoNotKeepValid ==
    \A w \in Callers :
        /\ HandledCmd(w, "InvalidateTransaction")
        /\ "RemoveView" \notin accepted[w]
        /\ ctx[w].views_keeping_tx_valid # {}
        /\ ~last[w].kept
        => /\ EndsWithTerminal(out[w])
           /\ out[w][Len(out[w])].status = Invalid
           /\ ctx[w].terminate
           /\ Keys(ctx[w]) \cap ctx[w].views_keeping_tx_valid = {}

\* the view events went out, then Invalid
C6_Witness ==
    \E w \in Callers :
        /\ HandledCmd(w, "InvalidateTransaction")
        /\ "RemoveView" \notin accepted[w]
        /\ ctx[w].views_keeping_tx_valid # {}
        /\ Len(out[w]) >= 2
        /\ out[w][Len(out[w])].status = Invalid

\* C7: Usurped, Dropped and Invalid from a view are never sent out and never terminate
\* the watcher; an Invalid in the external stream comes from an InvalidateTransaction
\* command.
C7_ViewInvalidIgnored ==
    \A w \in Callers :
        /\ \A i \in 1..Len(out[w]) :
              /\ out[w][i].status.kind \notin {"Usurped", "Dropped"}
              /\ out[w][i].status.kind = "Invalid" =>
                    /\ out[w][i].from = NoStream
                    /\ "InvalidateTransaction" \in accepted[w]
        /\ HandledView(w, {"Usurped", "Dropped", "Invalid"}) /\ wstate[w] = "running" =>
              /\ ~ctx[w].terminate
              /\ ~ENABLED WatcherTerminate(w)

\* a view's Invalid was handled after something had gone out
C7_Witness ==
    \E w \in Callers :
        /\ HandledView(w, {"Invalid"})
        /\ wstate[w] = "running"
        /\ out[w] # <<>>

\* C8: a Retracted from a view sends out nothing and does not abort the watcher, which
\* goes on handling view events and commands.
C8_RetractedIgnored ==
    \A w \in Callers :
        HandledView(w, {"Retracted"}) => wstate[w] # "panicked"

\* C9 as claimed: once finalize_transaction was accepted by a live watcher, the
\* external stream carries exactly one Finalized when it has ended.
C9_FinalizeAlwaysFinalized ==
    \A w \in Callers :
        "FinalizeTransaction" \in accepted[w] /\ wstate[w] = "ended" =>
            Times(out[w], LAMBDA st : st.kind = "Finalized") = 1

\* C9 as amended: the external stream never carries more than one Finalized; a
\* FinalizeTransaction command that the watcher handles sends out Finalized of the
\* command's block as the last event and the stream ends at its next poll, also with
\* view events waiting; a stream that has ended after finalize_transaction was
\* accepted has ended with Finalized or Invalid.
C9_FinalizeCommand ==
    \A w \in Callers :
        /\ Times(out[w], LAMBDA st : st.kind = "Finalized") <= 1
        /\ HandledCmd(w, "FinalizeTransaction") =>
              /\ out[w] # <<>>
              /\ out[w][Len(out[w])].from = NoStream
              /\ out[w][Len(out[w])].status.kind = "Finalized"
              /\ out[w][Len(out[w])].status.block = last[w].key
              /\ ctx[w].terminate
              /\ wstate[w] = "running" => StreamEndsNext(w)
        /\ "FinalizeTransaction" \in accepted[w] /\ wstate[w] = "ended" =>
              EndsWithTerminal(out[w])

\* Finalized of the command went out while a view stream has a status waiting
C9_Witness ==
    \E w \in Callers :
        /\ HandledCmd(w, "FinalizeTransaction")
        /\ wstate[w] = "running"
        /\ ReadyKeys(ctx[w]) # {}


\* the statuses of w's external stream that came from view stream s, in the order yielded
RECURSIVE FromView(_, _)
FromView(o, s) ==
    IF o = <<>> THEN <<>>
    ELSE IF Head(o).from = s THEN <<Head(o).status>> \o FromView(Tail(o), s)
    ELSE FromView(Tail(o), s)

\* a is b with some elements left out
RECURSIVE IsSubseq(_, _)
IsSubseq(a, b) ==
    IF a = <<>> THEN TRUE
    ELSE IF b = <<>> THEN FALSE
    ELSE IF Head(a) = Head(b) THEN IsSubseq(Tail(a), Tail(b))
    ELSE IsSubseq(a, Tail(b))

IsPrefix(a, b) == Len(a) <= Len(b) /\ SubSeq(b, 1, Len(a)) = a
NoDuplicates(f) == \A i, j \in 1..Len(f) : f[i] = f[j] => i = j
EndsWithFinalized(f) == f # <<>> /\ f[Len(f)].kind = "Finalized"
SingleView(w) == fed[2] = <<>> /\ streams[2].state = "unused"

\* every status of s that went out stands in fed[s], in the order of the external stream
OrderPreserved(w) == \A s \in StreamIds : IsSubseq(FromView(out[w], s), fed[s])

\* the statuses handle sends out whenever they are the first of their kind
Forwarded(f) ==
    /\ \A i \in 1..Len(f) :
          /\ f[i].kind \in {"Future", "Ready", "Broadcast", "InBlock", "FinalityTimeout",
                            "Finalized"}
          /\ f[i].kind = "Finalized" => i = Len(f)
    /\ \A i, j \in 1..Len(f) :
          /\ f[i].kind = "Ready" /\ f[j].kind = "Future" => j < i
          /\ f[i].kind = "InBlock" /\ f[j].kind = "InBlock" /\ f[i].block = f[j].block => i = j

\* C10 as claimed: the statuses of one view go out in the order of the view's stream;
\* with a single view whose stream has no duplicates and ends with Finalized, the
\* external stream, once it has ended, equals the view's stream.
C10_SingleViewEqual ==
    \A w \in Callers :
        /\ OrderPreserved(w)
        /\ /\ SingleView(w)
           /\ NoDuplicates(fed[1])
           /\ EndsWithFinalized(fed[1])
           /\ wstate[w] = "ended"
           => Statuses(out[w]) = fed[1]

\* C10 as amended: the statuses of one view go out in the order of the view's stream;
\* with a single view whose stream has no duplicates, holds only statuses that are
\* forwarded (no Usurped, Dropped, Invalid, Retracted), no Future after Ready, one
\* InBlock per block and Finalized as its last and only terminal status, the external
\* stream is at any time what the watcher has read of the view's stream, equals the
\* view's stream once Finalized was read, and then ends.
C10_OrderPreserved ==
    \A w \in Callers :
        /\ OrderPreserved(w)
        /\ /\ wstate[w] # "none"
           /\ SingleView(w)
           /\ NoDuplicates(fed[1])
           /\ EndsWithFinalized(fed[1])
           /\ Forwarded(fed[1])
           => /\ wstate[w] # "panicked"
              /\ Statuses(out[w]) \o streams[1].buf = fed[1] \/ wstate[w] = "ended"
              /\ IsPrefix(Statuses(out[w]), fed[1])
              /\ wstate[w] = "ended" => Statuses(out[w]) = fed[1]
              /\ Statuses(out[w]) = fed[1] /\ wstate[w] = "running" => StreamEndsNext(w)

\* a single view's three statuses went out and the stream ended
C10_Witness ==
    \E w \in Callers :
        /\ SingleView(w)
        /\ Forwarded(fed[1])
        /\ EndsWithFinalized(fed[1])
        /\ Len(fed[1]) = MaxFeed
        /\ wstate[w] = "ended"
        /\ Statuses(out[w]) = fed[1]


\* C11: a Future goes out only when neither Future nor Ready went out before on the
\* watcher, so no Future follows a Ready in the external stream; a Ready may follow a
\* Future.
C11_FutureOnlyFirst ==
    \A w \in Callers :
        /\ \A i, j \in 1..Len(out[w]) :
              i < j /\ out[w][j].status = Future => out[w][i].status \notin {Future, Ready}
        /\ ctx[w].future_seen <=> \E i \in 1..Len(out[w]) : out[w][i].status = Future
        /\ ctx[w].ready_seen <=> \E i \in 1..Len(out[w]) : out[w][i].status = Ready
        /\ HandledView(w, {"Future"}) /\ out[w] # <<>> =>
              \/ out[w][Len(out[w])].status = Future
              \/ \E i \in 1..Len(out[w]) : out[w][i].status \in {Future, Ready}

\* Ready went out after Future, and the Future a view reported then did not go out
C11_Witness ==
    \E w \in Callers :
        /\ Statuses(out[w]) = <<Future, Ready>>
        /\ HandledView(w, {"Future"})


\* a watcher of the listener lives for the hash
Watched(h) == h \in TxHashes /\ controllers[h] # NoCaller /\ ~RxClosed(controllers[h])

\* C12: when purge_transactions returns, every transaction it evicted is out of the
\* memory pool, and an InvalidateTransaction command was delivered to the controller of
\* every evicted transaction that has a watcher.
C12_EvictedAreInvalidated ==
    [][\A p \in Purges :
          PurgeFinish(p) =>
             \A h \in invalid_hashes(revalidation[p]) :
                /\ transactions'[h] = NoEntry
                /\ Watched(h) => "InvalidateTransaction" \in accepted'[controllers[h]]]_vars


\* the verdict a hash got in the call p, for a hash the call validated
VerdictIn(p, h) == VerdictOf(revalidation[p], h)
Returned(p) == revalidation[p].pc = "returned"

\* C13: when a revalidation of the memory pool is through, an entry it validated is kept
\* when its verdict is a valid result or Invalid(Future), and is evicted for every other
\* outcome (another Invalid reason, Unknown, a transport error of the chain api).
C13_Classification ==
    [][\A p \in Purges :
          PurgeFinish(p) =>
             \A h \in Hashes(revalidation[p].batch) :
                IF VerdictIn(p, h) \in {"Valid", "InvalidFuture"}
                THEN transactions'[h] = transactions[h]
                ELSE transactions'[h] = NoEntry]_vars

\* one call kept an entry on Invalid(Future) and evicted another on a transport error
C13_Witness ==
    \E p \in Purges : \E x, y \in revalidation[p].results :
        /\ Returned(p)
        /\ x.verdict = "InvalidFuture"
        /\ Buffered(x.hash)
        /\ transactions[x.hash].validated_at = revalidation[p].number
        /\ y.verdict = "TransportError"
        /\ ~Buffered(y.hash)

\* C18: an Unknown verdict never evicts a transaction from the memory pool in
\* purge_transactions.
C18_UnknownNeverEvicts ==
    [][\A p \in Purges :
          PurgeFinish(p) =>
             \A h \in Hashes(revalidation[p].batch) :
                VerdictIn(p, h) = "Unknown" => transactions'[h] = transactions[h]]_vars


Starts(p) == \E n \in FinalizedNumbers : PurgeStart(p, n)

\* C15: purge_transactions(finalized) validates only entries with
\* validated_at + 10 < finalized.number: an entry with validated_at = 0 is not validated
\* at number 10 and is at 11 (when the batch has room), an entry validated at n not
\* before n + 11.
C15_StrictPeriod ==
    [][\A p \in Purges :
          Starts(p) =>
             LET r == revalidation'[p] IN
             /\ \A h \in Hashes(r.batch) :
                   /\ Buffered(h)
                   /\ transactions[h].validated_at + 10 < r.number
                   /\ r.number >= transactions[h].validated_at + 11
             /\ r.number = 10 => r.batch = {}
             /\ \A h \in PoolHashes :
                   /\ Buffered(h)
                   /\ transactions[h].validated_at + 11 <= r.number
                   /\ Cardinality(r.batch) < MaxBatch
                   => h \in Hashes(r.batch)]_vars

\* an entry validated at 11 is in the batch of the call at 22
C15_Witness ==
    \E p \in Purges : \E b \in revalidation[p].batch :
        /\ revalidation[p].pc = "validating"
        /\ revalidation[p].number = 22
        /\ b.current
        /\ b.hash \notin Validated(revalidation[p])
        /\ Buffered(b.hash)
        /\ transactions[b.hash].validated_at = 11

\* C16: the batch of one purge_transactions call has at most as many entries as the
\* batch limit and is taken oldest first: no eligible entry left out has a smaller
\* validated_at than an entry of the batch.
C16_OldestFirst ==
    [][\A p \in Purges :
          Starts(p) =>
             LET r == revalidation'[p]
                 due == {h \in PoolHashes :
                            Buffered(h) /\ transactions[h].validated_at + 10 < r.number}
             IN  /\ Cardinality(r.batch) <= MaxBatch
                 /\ Hashes(r.batch) \subseteq due
                 /\ Cardinality(due) >= MaxBatch => Cardinality(r.batch) = MaxBatch
                 /\ \A x \in Hashes(r.batch), y \in due \ Hashes(r.batch) :
                       ~(transactions[y].validated_at < transactions[x].validated_at)]_vars

\* the batch is full with entries never validated, and an eligible entry validated at
\* 11 was left out
C16_Witness ==
    \E p \in Purges : \E y \in PoolHashes :
        /\ revalidation[p].pc = "validating"
        /\ revalidation[p].results = {}
        /\ Cardinality(revalidation[p].batch) = MaxBatch
        /\ \A b \in revalidation[p].batch :
              b.current /\ Buffered(b.hash) /\ transactions[b.hash].validated_at = 0
        /\ y \notin Hashes(revalidation[p].batch)
        /\ Buffered(y)
        /\ transactions[y].validated_at = 11
        /\ transactions[y].validated_at + 10 < revalidation[p].number

\* C17: an entry validated in a purge_transactions(finalized) call gets
\* validated_at = finalized.number when its validation completes, whatever the verdict.
C17_ValidatedAtStored ==
    [][\A p \in Purges : \A b \in revalidation[p].batch : \A v \in Verdicts :
          ValidationDone(p, b, v) /\ b.current /\ Buffered(b.hash) =>
             /\ transactions'[b.hash].validated_at = revalidation[p].number
             /\ transactions'[b.hash].tx = transactions[b.hash].tx
             /\ transactions'[b.hash].watched = transactions[b.hash].watched]_vars

\* a validation ended in a transport error and the entry, not yet removed, carries the
\* number of the call's block
C17_Witness ==
    \E p \in Purges : \E x \in revalidation[p].results :
        /\ revalidation[p].pc = "validating"
        /\ x.verdict \in {"TransportError", "Unknown", "InvalidStale"}
        /\ Buffered(x.hash)
        /\ transactions[x.hash].validated_at = revalidation[p].number


\* the entry under h is in the pool before the step and not after it
Disappears(h) == transactions[h] # NoEntry /\ transactions'[h] = NoEntry

C20_PushReplaces ==
    [][/\ \A xt \in Xts :
             /\ PushWatched(xt) =>
                   /\ transactions'[hash_and_length(xt)] =
                         [watched |-> TRUE, tx |-> xt, validated_at |-> 0]
                   /\ \A h \in PoolHashes \ {hash_and_length(xt)} :
                         transactions'[h] = transactions[h]
             /\ PushUnwatched(xt) =>
                   /\ transactions'[hash_and_length(xt)] =
                         [watched |-> FALSE, tx |-> xt, validated_at |-> 0]
                   /\ \A h \in PoolHashes \ {hash_and_length(xt)} :
                         transactions'[h] = transactions[h]
       /\ \A xts \in ExtendInputs :
             ExtendUnwatched(xts) =>
                \A h \in PoolHashes :
                   IF \E i \in 1..Len(xts) : hash_and_length(xts[i]) = h
                   THEN /\ transactions'[h].watched = FALSE
                        /\ transactions'[h].validated_at = 0
                        /\ hash_and_length(transactions'[h].tx) = h
                   ELSE transactions'[h] = transactions[h]
       /\ \A h \in PoolHashes :
             transactions'[h] # NoEntry => hash_and_length(transactions'[h].tx) = h]_vars

\* an entry that a revalidation holds was replaced by a watched one while the
\* validation was in flight
C20_Witness ==
    \E p \in Purges : \E b \in revalidation[p].batch :
        /\ revalidation[p].pc = "validating"
        /\ ~b.current
        /\ Buffered(b.hash)
        /\ transactions[b.hash].watched
        /\ transactions[b.hash].validated_at = 0


\* C21: the validated_at of the entry of a hash never decreases while the hash stays
\* buffered, under any interleaving of pushes and purge_transactions calls, calls that
\* overlap for different finalized blocks included.
C21_ValidatedAtMonotonic ==
    [][\A h \in PoolHashes :
          transactions[h] # NoEntry /\ transactions'[h] # NoEntry =>
             transactions'[h].validated_at >= transactions[h].validated_at]_vars

\* C22: once finish_revalidation has returned for a revalidation, the result of that
\* revalidation is never applied to the view's pool again, and none is left in flight:
\* it was applied before the return or it is discarded.
C22_NothingAfterFinish ==
    [][\A r \in Revalidations :
          r \in returned =>
             /\ applied'[r] = applied[r]
             /\ ~chan'[r].revalidation_result.sent]_vars

\* finish_revalidation applied a result and returned, and calls were made after it
C22_Witness ==
    \E r \in Revalidations :
       /\ r \in returned
       /\ applied[r] = 1
       /\ worker[r].validation_results # {}
       /\ revalidation_worker_channels # NoChannels

\* the channel endpoints the view holds belong to the revalidation that was started last
Latest == revalidation_worker_channels.revalidation

\* C23: a view has at most one background revalidation in flight: two workers of the view
\* are never active together, and a worker of an earlier revalidation never alters the
\* channel endpoints the view holds for a later one.
C23_OneRevalidationInFlight ==
    [][/\ Cardinality(Active) <= 1
       /\ \A r \in Revalidations :
             (worker'[r] # worker[r] /\ Latest # 0 /\ r < Latest) =>
                revalidation_worker_channels' = revalidation_worker_channels]_vars

\* C24: once the stop request is sent on the finish request channel, the worker starts no
\* further validation after the one in progress: it collects no result but that of the
\* validation it was waiting for, leaves its loop and sends what it has collected.
C24_StopsWithinOneStep ==
    [][\A r \in Revalidations :
          chan[r].finish_revalidation_request > 0 =>
             /\ worker[r].pc = "select" =>
                   /\ worker'[r].pc # "validating"
                   /\ worker'[r].validation_results = worker[r].validation_results
             /\ worker[r].pc = "validating" =>
                   \A x \in worker'[r].validation_results \ worker[r].validation_results :
                      x.hash = worker[r].ext_hash]_vars

\* a step of finish_revalidation that received the result of revalidation r
Receives(r) ==
    /\ maintain.pc = "recv"
    /\ maintain.revalidation = r
    /\ chan[r].revalidation_result.sent

\* C25: the result of one background revalidation is applied to the view's pool at most
\* once, and only by finish_revalidation on receiving it: the pool then is what
\* remove_invalid(invalid) followed by resubmit(revalidated) make of it; no step of a
\* worker changes the pool.
C25_AppliedOnceByFinish ==
    [][/\ \A r \in Revalidations :
             /\ applied'[r] <= 1
             /\ applied'[r] # applied[r] =>
                   /\ Receives(r)
                   /\ vpool' = resubmit(remove_invalid(vpool,
                                           chan[r].revalidation_result.invalid_hashes),
                                        chan[r].revalidation_result.revalidated)
       /\ worker' # worker => vpool' = vpool]_vars

\* a result that evicts one transaction and updates another was applied
C25_Witness ==
    \E r \in Revalidations :
       /\ applied[r] = 1
       /\ \E x, y \in worker[r].validation_results :
             /\ x.verdict = "Valid"
             /\ y.verdict = "InvalidStale"
             /\ vpool[x.hash] = valid_at(at.number)
             /\ ~vpool[y.hash].ready

\* C26: finish_revalidation on a view that holds no channel endpoints (no revalidation was
\* started, or the last one was finished) returns at once: nothing is sent on a channel,
\* the pool and the endpoints stay as they are.  A second finish_revalidation after one
\* start is such a call.
C26_FinishWithoutEndpoints ==
    [][(revalidation_worker_channels = NoChannels
           /\ calls' # calls /\ calls'.last = "finish_revalidation") =>
          /\ maintain' = Idle
          /\ chan' = chan
          /\ vpool' = vpool
          /\ revalidation_worker_channels' = NoChannels
          /\ applied' = applied
          /\ returned' = returned]_vars

\* finish_revalidation was called a second time after one start: the first call returned
\* for the revalidation, the second found no endpoints
C26_Witness ==
    /\ Started = {1}
    /\ 1 \in returned
    /\ maintain = Idle
    /\ revalidation_worker_channels = NoChannels
    /\ calls.last = "finish_revalidation"
    /\ worker[1].validation_results # {}

\* the hashes a worker still has to validate, validates or has validated
Known(w) ==
    w.batch \cup {x.hash : x \in w.validation_results}
            \cup (IF w.ext_hash = "none" THEN {} ELSE {w.ext_hash})

\* the hashes of the validation results with one of the verdicts
WithVerdict(w, verdicts) == {x.hash : x \in {y \in w.validation_results : y.verdict \in verdicts}}

\* C27: in the result a worker sends, every validated transaction is classified by its
\* verdict: valid ones are in revalidated as records validated at the number of the view's
\* block, Invalid ones and transport errors are in invalid_hashes, Unknown ones in neither;
\* the two collections are disjoint and hold only hashes of the ready set as it was when
\* the worker took its batch.
C27_Classification ==
    [][\A r \in Revalidations :
          /\ (worker[r].pc = "queued" /\ worker'[r].pc = "select") =>
                Known(worker'[r]) = {h \in ViewHashes : vpool[h].ready}
          /\ worker[r].pc \in {"select", "validating", "send"} =>
                Known(worker'[r]) \subseteq Known(worker[r])
          /\ (worker[r].pc = "send" /\ worker'[r].pc = "done"
                 /\ chan[r].revalidation_result_rx) =>
                LET message == chan'[r].revalidation_result
                    hashes == {x.hash : x \in message.revalidated}
                IN /\ message.sent
                   /\ hashes = WithVerdict(worker[r], {"Valid"})
                   /\ \A x \in message.revalidated : x.valid_at = at.number
                   /\ message.invalid_hashes =
                         WithVerdict(worker[r], {"InvalidFuture", "InvalidStale",
                                                 "TransportError"})
                   /\ hashes \cap message.invalid_hashes = {}
                   /\ WithVerdict(worker[r], {"Unknown"})
                         \cap (hashes \cup message.invalid_hashes) = {}
                   /\ hashes \cup message.invalid_hashes \subseteq Known(worker[r])]_vars

\* a result was sent for a batch with a valid transaction and one of unknown validity
C27_Witness ==
    \E r \in Revalidations :
       /\ chan[r].revalidation_result.sent
       /\ chan[r].revalidation_result.revalidated # {}
       /\ WithVerdict(worker[r], {"Unknown"}) # {}

\* C28: a transaction whose verdict in the view's background revalidation is
\* Invalid(Future) is not in the invalid_hashes of the result that is sent, so
\* remove_invalid does not evict it from the view.
C28_FutureNotEvicted ==
    \A r \in Revalidations :
       chan[r].revalidation_result.sent =>
          chan[r].revalidation_result.invalid_hashes
             \cap WithVerdict(worker[r], {"InvalidFuture"}) = {}

\* the maintain side dropped the result receiver of a revalidation without finishing it
Discarded(r) ==
    /\ worker[r].pc # "unused"
    /\ ~chan[r].revalidation_result_rx
    /\ r \notin returned

\* C29: when the maintain side has dropped its result receiver while the revalidation is
\* in flight, the worker still terminates, and its result is never buffered for anyone
\* nor applied to the pool.
C29_DroppedReceiver ==
    \A r \in Revalidations :
       /\ Discarded(r) ~> (worker[r].pc = "done")
       /\ [](Discarded(r) => applied[r] = 0 /\ ~chan[r].revalidation_result.sent)

\* a worker that validated transactions has returned after its receiver was dropped
C29_Witness ==
    \E r \in Revalidations :
       /\ Discarded(r)
       /\ worker[r].pc = "done"
       /\ worker[r].validation_results # {}

\* an AddView command is queued for a watcher in this step
GotAddView(w) ==
    /\ Len(cmdq'[w]) = Len(cmdq[w]) + 1
    /\ cmdq'[w][Len(cmdq'[w])].cmd = "AddView"

\* C30: add_view_watcher_for_tx(tx_hash, block_hash, stream) queues an AddView command
\* only for the watcher the controller of tx_hash belongs to, exactly one, and then leaves
\* the controllers as they are; with no controller for tx_hash nothing is queued and no
\* controller appears; when the command channel of the controller is closed the entry of
\* tx_hash is removed, nothing is queued and no other entry changes.
C30_AddViewWatcher ==
    [][/\ \A w \in Callers :
             GotAddView(w) =>
                /\ \E h \in TxHashes : controllers[h] = w
                /\ ~RxClosed(w)
                /\ cmdq'[w] = Append(cmdq[w], cmdq'[w][Len(cmdq'[w])])
                /\ \A x \in Callers \ {w} : cmdq'[x] = cmdq[x]
                /\ controllers' = controllers
       /\ \A h \in TxHashes : controllers[h] = NoCaller => controllers'[h] = NoCaller
       /\ controllers' # controllers =>
             /\ \E h \in TxHashes :
                   /\ controllers[h] # NoCaller
                   /\ RxClosed(controllers[h])
                   /\ controllers' = [controllers EXCEPT ![h] = NoCaller]
             /\ cmdq' = cmdq
             /\ streams' = streams]_vars

\* a view was added for tb; later the send for ta failed and removed the entry of ta,
\* while the entry of tb, whose channel is closed as well, is still there
C30_Witness ==
    /\ controllers["ta"] = NoCaller
    /\ controllers["tb"] # NoCaller
    /\ RxClosed(controllers["tb"])
    /\ "AddView" \in accepted[controllers["tb"]]

\* the consumer dropped the stream of watcher w and the listener still holds its controller
Leaked(w) == wstate[w] = "dropped" /\ controllers[arg[w]] = w

\* C31: the controller of a watcher whose stream the consumer dropped does not stay: it is
\* gone after remove_stale_controllers (or a failed send) ran; a controller is only ever
\* removed when its receiver is gone; and create_external_watcher_for_tx returns None
\* only when it found an entry, so it succeeds again once the entry is gone.
C31_StaleControllersReaped ==
    /\ \A w \in Callers : Leaked(w) ~> ~Leaked(w)
    /\ [][/\ \A h \in TxHashes :
                (controllers[h] # NoCaller /\ controllers'[h] = NoCaller) =>
                   RxClosed(controllers[h])
          /\ \A c \in Callers :
                (pc[c] = "idle" /\ pc'[c] # "idle") =>
                   IF controllers[arg'[c]] = NoCaller
                   THEN pc'[c] = "checked"
                   ELSE pc'[c] = "done" /\ result'[c] = "None"
          /\ \A c \in Callers :
                (pc[c] = "checked" /\ pc'[c] # "checked") =>
                   /\ result'[c] = "Some"
                   /\ controllers'[arg[c]] = c]_vars

\* the stream of the first watcher was dropped, its controller was removed, and a second
\* create_external_watcher_for_tx call for the same transaction returned a stream
C31_Witness ==
    /\ wstate[1] = "dropped"
    /\ arg[2] = arg[1]
    /\ result[2] = "Some"
    /\ controllers[arg[1]] = 2

\* C32: views_keeping_tx_valid holds the views that reported Future or Ready and have not
\* reported Invalid, Dropped, Usurped or Finalized since: right after a watcher handled
\* such a status of a view, the view is not in the set (and no longer suppresses an
\* InvalidateTransaction).
C32_TerminalViewsNotKept ==
    \A w \in Callers :
       (wstate[w] = "running" /\ last[w].src = "view"
           /\ last[w].kind \in {"Invalid", "Dropped", "Usurped", "Finalized"}) =>
          last[w].key \notin ctx[w].views_keeping_tx_valid

\* watcher w takes a command from its channel and handles it in this step
HandlesCommand(w) ==
    /\ wstate[w] = "running"
    /\ wstate'[w] = "running"
    /\ cmdq[w] # <<>>
    /\ cmdq'[w] = Tail(cmdq[w])

\* C33: the watcher loop gives the events of the views priority over the commands: a
\* command is handled only when no stream of a subscribed view has a status ready, and
\* the commands of a watcher are handled in the order they were sent: the one handled is
\* the oldest in the channel, and a command sent is queued behind those waiting.
C33_ViewsBeforeCommands ==
    [][\A w \in Callers :
          /\ HandlesCommand(w) =>
                /\ \A k \in DOMAIN ctx[w].views : streams[ctx[w].views[k]].buf = <<>>
                /\ last'[w].src = "cmd"
                /\ last'[w].kind = Head(cmdq[w]).cmd
                /\ last'[w].key = Head(cmdq[w]).block
          /\ Len(cmdq'[w]) > Len(cmdq[w]) =>
                /\ Len(cmdq'[w]) = Len(cmdq[w]) + 1
                /\ SubSeq(cmdq'[w], 1, Len(cmdq[w])) = cmdq[w]]_vars

\* a status of a view was handled while commands were waiting, two of them in the order
\* they were sent
C33_Witness ==
    \E w \in Callers :
       /\ last[w].src = "view"
       /\ Len(cmdq[w]) >= 2
       /\ cmdq[w][1].cmd # cmdq[w][2].cmd

\* C34: a remove_watched(xt) call takes out of the map every entry whose body is xt,
\* watched or not, and leaves every entry with another body as it was
C34_RemoveWatchedFrame ==
    [][remove_watched_call'.xt # "none" =>
          \A h \in PoolHashes :
             IF transactions[h].tx = remove_watched_call'.xt
             THEN transactions'[h] = NoEntry
             ELSE transactions'[h] = transactions[h]]_vars

\* remove_watched took out an unwatched entry and left another entry in the map
C34_Witness ==
    /\ remove_watched_call.xt # "none"
    /\ remove_watched_call.unwatched
    /\ transactions[hash_and_length(remove_watched_call.xt)] = NoEntry
    /\ \E h \in PoolHashes : transactions[h] # NoEntry

\* C35: a purge_transactions call changes the map at the hashes of its own batch only:
\* its validations store validated_at at a hash of the batch, its removal takes out
\* hashes of the batch whose verdict was neither Ok nor Invalid(Future), and every other
\* entry is after each of its steps what it was before
FinishesPurge(p) == revalidation[p].pc = "validating" /\ revalidation'[p].pc = "returned"
C35_PurgeFrame ==
    [][\A p \in Purges :
          /\ revalidation'[p].results # revalidation[p].results =>
                \A h \in PoolHashes \ Hashes(revalidation[p].batch) :
                    transactions'[h] = transactions[h]
          /\ revalidation[p].pc # "validating" /\ revalidation'[p].pc = "validating" =>
                transactions' = transactions
          /\ FinishesPurge(p) =>
                \A h \in PoolHashes :
                    transactions'[h] # transactions[h] =>
                       /\ transactions'[h] = NoEntry
                       /\ \E x \in revalidation[p].results :
                             x.hash = h /\ x.verdict \notin {"Valid", "InvalidFuture"}]_vars

\* a purge_transactions call has returned after removing a hash of its batch, and the map
\* holds an entry that was not in the batch
C35_Witness ==
    \E p \in Purges :
       /\ revalidation[p].pc = "returned"
       /\ revalidation[p].invalid # {}
       /\ removal = "purge_transactions"
       /\ \A h \in revalidation[p].invalid : transactions[h] = NoEntry
       /\ \E h \in PoolHashes \ Validated(revalidation[p]) : transactions[h] # NoEntry

\* C36: the worker and the maintain thread do not wait for each other for ever: a worker
\* that runs revalidate_later ends, the result becomes buffered only by the one send a
\* worker makes as it ends (to a receiver that is alive), and a finish_revalidation call
\* that took the endpoints returns, with the request sender (the worker is stopped) or
\* without it (the worker had removed it on natural completion)
Runs(r) == worker[r].pc \in {"select", "validating", "send"}
C36_NoDeadlock ==
    /\ \A r \in Revalidations : Runs(r) ~> (worker[r].pc = "done")
    /\ (maintain.pc = "send" /\ maintain.finish_revalidation_request_tx)
          ~> (maintain.pc = "idle")
    /\ (maintain.pc = "send" /\ ~maintain.finish_revalidation_request_tx)
          ~> (maintain.pc = "idle")
    /\ [][\A r \in Revalidations :
             /\ worker[r].pc = "done" => worker'[r].pc = "done"
             /\ (Runs(r) /\ worker'[r].pc = "done") =>
                   /\ worker[r].pc = "send"
                   /\ chan[r].revalidation_result_rx => chan'[r].revalidation_result.sent
             /\ (~chan[r].revalidation_result.sent /\ chan'[r].revalidation_result.sent) =>
                   worker[r].pc = "send" /\ worker'[r].pc = "done"]_vars

\* finish_revalidation has returned for a worker that was stopped before it had validated
\* its batch, and for a worker that had validated all of it
C36_Witness ==
    /\ returned = Revalidations
    /\ \A r \in Revalidations : worker[r].pc = "done" /\ applied[r] = 1
    /\ Cardinality(worker[1].validation_results) < Cardinality(ViewHashes)
    /\ Cardinality(worker[2].validation_results) = Cardinality(ViewHashes)

====
